---- MODULE Spec2Model ----
(***************************************************************************)
(* Model of the pitch-deck generator's external-model invocation layer     *)
(* (executeModelRequest / pollStatus / generateImage / generateVideo in    *)
(* src/services/media/mediaGenerator.js) and of the text-model response    *)
(* parsing done by generateBrandResearch / generateScriptContent, and of    *)
(* the request handlers of src/index.js and the routers that run the       *)
(* session pipeline over them.                                             *)
(*                                                                         *)
(* Time is counted in milliseconds, as Date.now() does.  JavaScript's      *)
(* undefined is the string Undef; an object is a record that carries the *)
(* set of its own keys in the field keys.                                *)
(***************************************************************************)
EXTENDS Integers, Sequences, FiniteSets, TLC

Undef == "undefined"

(***************************************************************************)
(* Values exchanged with the media provider                                *)
(***************************************************************************)

\* MODEL_CONFIGS.image.model / MODEL_CONFIGS.video.model
ImageModel == "fal-ai/flux-pro/v1.1-ultra"
VideoModel == "fal-ai/fast-animatediff/turbo/text-to-video"

\* pollStatus(statusUrl, interval = 20000, timeout = 300000)
DefaultInterval == 20000
DefaultTimeout == 300000

\* prompts a caller may hand to generateImage / generateVideo
Prompts == {"a city skyline", "a flowing river"}

\* The output payload of a job: present is its truthiness, the three url
\* fields are the places generateImage / generateVideo look for a url.
NoPayload ==
    [present |-> FALSE, imageUrl |-> Undef, videoUrl |-> Undef, videoNestedUrl |-> Undef]
EmptyPayload ==
    [present |-> TRUE, imageUrl |-> Undef, videoUrl |-> Undef, videoNestedUrl |-> Undef]
ImagePayload ==
    [present |-> TRUE, imageUrl |-> "https://fal.media/files/img.png",
     videoUrl |-> Undef, videoNestedUrl |-> Undef]
VideoPayload ==
    [present |-> TRUE, imageUrl |-> Undef,
     videoUrl |-> "https://fal.media/files/clip.mp4", videoNestedUrl |-> Undef]
VideoNestedPayload ==
    [present |-> TRUE, imageUrl |-> Undef, videoUrl |-> Undef,
     videoNestedUrl |-> "https://fal.media/files/nested.mp4"]
Payloads == {NoPayload, EmptyPayload, ImagePayload, VideoPayload, VideoNestedPayload}

\* An object returned by fal.request / fal.subscribe, or by executeModelRequest.
MkObj(ks, su, rid, out, dat, rqid) ==
    [nullish |-> FALSE, keys |-> ks, status_url |-> su, request_id |-> rid,
     output |-> out, data |-> dat, requestId |-> rqid]
\* fal.request / fal.subscribe resolving with no object at all
NullResponse ==
    [nullish |-> TRUE, keys |-> {}, status_url |-> Undef, request_id |-> Undef,
     output |-> NoPayload, data |-> NoPayload, requestId |-> Undef]
\* {output}
RawOutput(p) == MkObj({"output"}, Undef, Undef, p, NoPayload, Undef)
\* {status_url, request_id}
StatusHandle ==
    MkObj({"status_url", "request_id"}, "https://queue.fal.run/requests/r1/status",
          "r1", NoPayload, NoPayload, Undef)
\* {data, requestId}
Normalized(p, rid) == MkObj({"data", "requestId"}, Undef, Undef, NoPayload, p, rid)
EmptyObject == MkObj({}, Undef, Undef, NoPayload, NoPayload, Undef)

\* what the provider's two entry points may resolve with
ProviderResponses ==
    {RawOutput(p) : p \in Payloads \ {NoPayload}}
        \cup {Normalized(p, "r2") : p \in Payloads}
        \cup {StatusHandle, EmptyObject, NullResponse}

\* errors fal.request may reject with (error.response.status of the first is 404)
RequestErrors == {"Not Found", "Internal Server Error"}
SubscribeErrors == {"Queue submission failed"}

\* GET <status_url> bodies: {status, output?, error?}
NonTerminal == {"IN_QUEUE", "IN_PROGRESS", "CANCELLED"}
ProviderErrors == {Undef, "", "quota exceeded"}
StatusBody(s, out, err) == [status |-> s, output |-> out, error |-> err]
StatusBodies ==
    {StatusBody(s, NoPayload, Undef) : s \in NonTerminal}
        \cup {StatusBody("COMPLETED", p, Undef) : p \in Payloads}
        \cup {StatusBody("FAILED", NoPayload, e) : e \in ProviderErrors}
StatusGetErrors == {"Network Error", "Request failed with status code 500"}

\* how long a status query may take, and by how much setTimeout may overshoot
GetLatencies == {0, 10000, 150000}
SleepOvershoots == {0, 10000}

Truthy_Always(s) == TRUE

\* JavaScript truthiness of a string-or-undefined value
Truthy(s) == s # Undef /\ s # ""

VARIABLES
    pc,             \* position of the one generation call being followed
    genKind,        \* "image" | "video": which generator was called
    modelId,        \* executeModelRequest's modelId
    input,          \* executeModelRequest's input
    nRequest,       \* number of fal.request calls made
    nSubscribe,     \* number of fal.subscribe calls made
    subscribeArgs,  \* <<modelId, input>> handed to fal.subscribe
    immediate,      \* how the immediate invocation ended
    response,       \* what fal.request resolved with
    queueResponse,  \* what fal.subscribe resolved with
    pollMode,       \* "none" | "immediate" | "queued": whose handle is polled
    requestAt,      \* request_id of the handle being polled
    elapsed,        \* Date.now() - startTime of the running pollStatus
    checks,         \* status queries started by the running pollStatus
    sleeps,         \* sleeps finished by the running pollStatus
    lastCheckAt,    \* elapsed when the last status query was started
    minGap,         \* least time between two consecutive status queries (-1: none yet)
    lastBody,       \* body of the last status response
    pollOutcome,    \* how the running pollStatus settled, until its caller resumes
    pollLog,        \* one summary per finished pollStatus call
    execResult,     \* outcome of executeModelRequest
    genResult,      \* outcome of generateImage / generateVideo
    queueUpdates,   \* how onQueueUpdate ended for each queue update delivered
    parsePc,        \* position of the text-model call being followed
    modelText,      \* the text the text model answers with
    wrapped,        \* how that text was put together
    brandInfo,      \* brandInfo of the research request
    researchRuns,   \* research requests received so far
    researchReturn, \* research returned by generateBrandResearch
    conversationHistory, \* geminiMcp's Map, research entries
    researchStore,  \* index.js's Map, researchKey -> entry
    scriptReturn,   \* outcome of generateScriptContent
    pipePc,         \* position of the asset-generating handler being followed
    handler,        \* which handler that is
    request,        \* its request body
    research,       \* the researchStore entry the script handler read
    script,         \* the script generateScript returned
    mediaPrompts,   \* visualPrompts of the run
    attempts,       \* the generations that settled in this run, in order
    assets,         \* the handler's assets array
    savedAssets,    \* saveAssetsToDrive's savedAssets array
    saveLog,        \* whether the saving of each asset succeeded, in order
    calls,          \* calls the run made to the text model, the media models, storage
    httpResponse,   \* what the handler answered
    runs,           \* asset-generating requests handled so far
    sessionFolders, \* storageService's Map, sessionKey -> folder
    driveFolders,   \* folders created in Drive so far
    scriptHistory,  \* geminiMcp's Map, script entries
    mediaPromptHistory, \* mediaPromptGenerator's Map
    latestScriptData, \* index.js's latestScriptData
    tasks,          \* the requests in flight at the same time, each with its locals
    arrived,        \* requests that arrived so far
    writeLog,       \* the researchStore.set calls made, in order
    scriptLog,      \* the scripts stored, in order, each with the research it used
    folderLog       \* the folders created in Drive, in order

execVars ==
    <<pc, genKind, modelId, input, nRequest, nSubscribe, subscribeArgs, immediate,
      response, queueResponse, pollMode, requestAt, elapsed, checks, sleeps,
      lastCheckAt, minGap, lastBody, pollOutcome, pollLog, execResult, genResult,
      queueUpdates>>

parseVars ==
    <<parsePc, modelText, wrapped, brandInfo, researchRuns, researchReturn,
      conversationHistory, researchStore, scriptReturn>>

pipeVars ==
    <<pipePc, handler, request, research, script, mediaPrompts, attempts, assets,
      savedAssets, saveLog, calls, httpResponse, runs, sessionFolders, driveFolders,
      scriptHistory, mediaPromptHistory, latestScriptData>>

taskVars == <<tasks, arrived, writeLog, scriptLog, folderLog>>

vars == <<execVars, taskVars, parseVars, pipeVars>>

NoBody == StatusBody("none", NoPayload, Undef)
NoOutcome == [status |-> "none", error |-> Undef, output |-> NoPayload]
NoExec == [status |-> "none", value |-> EmptyObject, error |-> Undef]
NoGen == [status |-> "none", url |-> Undef, error |-> Undef]

InitExec ==
    /\ pc = "idle"
    /\ genKind = "none"
    /\ modelId = Undef
    /\ input = Undef
    /\ nRequest = 0
    /\ nSubscribe = 0
    /\ subscribeArgs = <<>>
    /\ immediate = "none"
    /\ response = EmptyObject
    /\ queueResponse = EmptyObject
    /\ pollMode = "none"
    /\ requestAt = Undef
    /\ elapsed = 0
    /\ checks = 0
    /\ sleeps = 0
    /\ lastCheckAt = 0
    /\ minGap = -1
    /\ lastBody = NoBody
    /\ pollOutcome = NoOutcome
    /\ pollLog = <<>>
    /\ execResult = NoExec
    /\ genResult = NoGen
    /\ queueUpdates = <<>>


(***************************************************************************)
(* pollStatus (mediaGenerator.js 40-71)                                    *)
(***************************************************************************)

LoopCondition_Inclusive(e, timeout) == e <= timeout

\* line 43: while (Date.now() - startTime < timeout)
LoopCondition(e, timeout) == e < timeout

PollVerdict_FailedPending(body) ==
    IF body.status = "COMPLETED" THEN "return" ELSE "sleep"

\* lines 56-63: what one status response makes the loop do
PollVerdict(body) ==
    IF body.status = "COMPLETED" THEN "return"
    ELSE IF body.status = "FAILED" THEN "throw"
    ELSE "sleep"

\* line 59: Request failed: ${response.data.error || 'Unknown error'}
FailureMessage(err) ==
    "Request failed: " \o (IF Truthy(err) THEN err ELSE "Unknown error")

SleepTime_NoInterval(interval, overshoot) == overshoot

\* line 63: setTimeout(resolve, interval) fires no earlier than interval later
SleepTime(interval, overshoot) == interval + overshoot

\* line 70
TimeoutMessage == "Request timed out"

\* pollStatus settles: it returns response.data (line 57) or throws (59, 66, 70)
PollReturned(body) == [status |-> "returned", error |-> Undef, output |-> body.output]
PollThrew(msg) == [status |-> "threw", error |-> msg, output |-> NoPayload]

(***************************************************************************)
(* generateImage / generateVideo: what they make of the executor's result  *)
(* (mediaGenerator.js 183-210 and 250-278)                                 *)
(***************************************************************************)

Resolved(u) == [status |-> "resolved", url |-> u, error |-> Undef]
Rejected(prefix, msg) == [status |-> "rejected", url |-> Undef, error |-> prefix \o msg]

ImageOutcome_Unchecked(res) ==
    IF res.status = "threw" THEN Rejected("Failed to generate image: ", res.error)
    ELSE Resolved(res.value.data.imageUrl)

\* lines 188-206
ImageOutcome(res) ==
    IF res.status = "threw" THEN Rejected("Failed to generate image: ", res.error)
    ELSE IF res.value.nullish
        THEN Rejected("Failed to generate image: ",
                      "Cannot read properties of undefined (reading 'data')")
    ELSE IF ~res.value.data.present
        THEN Rejected("Failed to generate image: ", "No data received from Fal.ai")
    ELSE IF ~Truthy(res.value.data.imageUrl)
        THEN Rejected("Failed to generate image: ", "Image URL not found in response")
    ELSE Resolved(res.value.data.imageUrl)

VideoOutcome_Unchecked(res) ==
    IF res.status = "threw" THEN Rejected("Failed to generate video: ", res.error)
    ELSE IF Truthy(res.value.data.videoUrl) THEN Resolved(res.value.data.videoUrl)
    ELSE Resolved(res.value.data.videoNestedUrl)

\* lines 256-274: result.data.video_url || result.data.video?.url
VideoOutcome(res) ==
    IF res.status = "threw" THEN Rejected("Failed to generate video: ", res.error)
    ELSE IF res.value.nullish
        THEN Rejected("Failed to generate video: ",
                      "Cannot read properties of undefined (reading 'data')")
    ELSE IF ~res.value.data.present
        THEN Rejected("Failed to generate video: ", "No data received from Fal.ai")
    ELSE IF Truthy(res.value.data.videoUrl) THEN Resolved(res.value.data.videoUrl)
    ELSE IF Truthy(res.value.data.videoNestedUrl)
        THEN Resolved(res.value.data.videoNestedUrl)
    ELSE Rejected("Failed to generate video: ", "Video URL not found in response")

GenOutcome(kind, res) == IF kind = "image" THEN ImageOutcome(res) ELSE VideoOutcome(res)

(***************************************************************************)
(* executeModelRequest (mediaGenerator.js 79-153)                          *)
(***************************************************************************)

Returned(v) == [status |-> "returned", value |-> v, error |-> Undef]
Threw(e) == [status |-> "threw", value |-> EmptyObject, error |-> e]

FallbackArgs_ImageModel(m, i) == <<ImageModel, i>>

\* lines 113-114: fal.subscribe(modelId, { input, ... })
FallbackArgs(m, i) == <<m, i>>

\* lines 93-96 and 145-148: { data: finalStatus.output, requestId: <handle>.request_id }
PolledResult(out, rid) == Normalized(out, rid)

\* line 99: return response
DirectResult(r) == r

\* line 151: return queueResponse
QueuedDirectResult(r) == r

\* line 86 / line 138: if (<response>.status_url)
HasHandle(r) == Truthy(r.status_url)

\* the call ends: executeModelRequest settles and the generator settles on it
Settle(res) ==
    /\ pc' = "done"
    /\ execResult' = res
    /\ genResult' = GenOutcome(genKind, res)
    /\ UNCHANGED <<nSubscribe, subscribeArgs, parseVars, pipeVars, taskVars>>

Finish(res) == Settle(res) /\ UNCHANGED queueUpdates

\* lines 100-135: the catch block submits the job to the queue
FallBack ==
    /\ pc' = "subscribe"
    /\ nSubscribe' = nSubscribe + 1
    /\ subscribeArgs' = FallbackArgs(modelId, input)
    /\ UNCHANGED <<execResult, genResult, queueUpdates, parseVars, pipeVars, taskVars>>

Continue(p) ==
    /\ pc' = p
    /\ UNCHANGED <<nSubscribe, subscribeArgs, execResult, genResult, queueUpdates,
                   parseVars, pipeVars, taskVars>>

pollVars ==
    <<pollMode, requestAt, elapsed, checks, sleeps, lastCheckAt, minGap, lastBody,
      pollOutcome>>
callVars == <<genKind, modelId, input, nRequest>>

\* lines 92 / 144: pollStatus(<handle>.status_url) is entered, startTime = Date.now()
StartPoll(mode, rid) ==
    /\ pollMode' = mode
    /\ requestAt' = rid
    /\ elapsed' = 0
    /\ checks' = 0
    /\ sleeps' = 0
    /\ lastCheckAt' = 0
    /\ minGap' = -1
    /\ lastBody' = NoBody
    /\ pollOutcome' = NoOutcome
    /\ UNCHANGED pollLog
    /\ Continue("pollHead")

\* pollStatus settles; the awaiting executeModelRequest resumes in a later step
PollEnds(outcome) ==
    /\ pollOutcome' = outcome
    /\ UNCHANGED pollLog
    /\ Continue("pollSettled")

\* lines 164-181: generateImage calls executeModelRequest, which calls fal.request
generateImage(p) ==
    /\ pc = "idle"
    /\ genKind' = "image"
    /\ modelId' = ImageModel
    /\ input' = <<p, "Style: photorealistic", "Mood: professional", "high quality, detailed">>
    /\ nRequest' = nRequest + 1
    /\ Continue("request")
    /\ UNCHANGED <<immediate, response, queueResponse, pollVars, pollLog>>

\* lines 222-248
generateVideo(p) ==
    /\ pc = "idle"
    /\ genKind' = "video"
    /\ modelId' = VideoModel
    /\ input' = <<p, "Style: cinematic", "Motion: cinematic, 5, smooth fade">>
    /\ nRequest' = nRequest + 1
    /\ Continue("request")
    /\ UNCHANGED <<immediate, response, queueResponse, pollVars, pollLog>>

\* line 83 resolves; lines 86-99
RequestResolves(r) ==
    /\ pc = "request"
    /\ immediate' = "resolved"
    /\ response' = r
    /\ UNCHANGED <<callVars, queueResponse>>
    /\ IF r.nullish
         THEN FallBack /\ UNCHANGED <<pollVars, pollLog>>
         ELSE IF HasHandle(r)
           THEN StartPoll("immediate", r.request_id)
           ELSE Finish(Returned(DirectResult(r))) /\ UNCHANGED <<pollVars, pollLog>>

\* line 83 rejects; lines 100-135
RequestRejects(e) ==
    /\ pc = "request"
    /\ immediate' = e
    /\ UNCHANGED <<callVars, response, queueResponse, pollVars, pollLog>>
    /\ FallBack

\* line 113 resolves; lines 138-151
SubscribeResolves(r) ==
    /\ pc = "subscribe"
    /\ queueResponse' = r
    /\ UNCHANGED <<callVars, immediate, response>>
    /\ IF r.nullish
         THEN /\ Finish(Threw("Cannot read properties of undefined (reading 'status_url')"))
              /\ UNCHANGED <<pollVars, pollLog>>
         ELSE IF HasHandle(r)
           THEN StartPoll("queued", r.request_id)
           ELSE Finish(Returned(QueuedDirectResult(r))) /\ UNCHANGED <<pollVars, pollLog>>

\* line 113 rejects: nothing catches it inside executeModelRequest
SubscribeRejects(e) ==
    /\ pc = "subscribe"
    /\ UNCHANGED <<callVars, immediate, response, queueResponse, pollVars, pollLog>>
    /\ Finish(Threw(e))

\* most queue updates followed while one fal.subscribe is pending
MaxQueueUpdates == 1

\* a queue update as the callback reads it: its status, and whether its logs is
\* an array
QueueUpdates ==
    [status : {"IN_QUEUE", "IN_PROGRESS", "FAILED", "COMPLETED"}, hasLogs : BOOLEAN]

\* lines 117-133: what the callback comes to; update.logs.map of line 120 throws
\* when logs is no array
OnQueueUpdate(update) ==
    CASE update.status = "IN_PROGRESS" ->
           IF update.hasLogs THEN "logger.info" ELSE "TypeError"
      [] update.status = "FAILED" -> "logger.error"
      [] update.status = "COMPLETED" -> "logger.info"
      [] OTHER -> "nothing"

\* lines 113-135: the client delivers a queue update to onQueueUpdate while
\* fal.subscribe is pending.  What the client does with an exception of the
\* callback is the client's choice: it goes on, or it rejects fal.subscribe with it.
QueueUpdate(update) ==
    /\ pc = "subscribe"
    /\ Len(queueUpdates) < MaxQueueUpdates
    /\ queueUpdates' = Append(queueUpdates, OnQueueUpdate(update))
    /\ UNCHANGED <<callVars, immediate, response, queueResponse, pollVars, pollLog>>
    /\ \/ UNCHANGED <<pc, nSubscribe, subscribeArgs, execResult, genResult, parseVars,
                      pipeVars, taskVars>>
       \/ /\ OnQueueUpdate(update) = "TypeError"
          /\ Settle(Threw("Cannot read properties of undefined (reading 'map')"))

\* lines 43-45: the loop condition holds and a status query is started
PollCheck ==
    /\ pc = "pollHead"
    /\ LoopCondition(elapsed, DefaultTimeout)
    /\ checks' = checks + 1
    /\ lastCheckAt' = elapsed
    /\ minGap' = IF checks = 0 THEN minGap
                 ELSE IF minGap = -1 \/ elapsed - lastCheckAt < minGap
                      THEN elapsed - lastCheckAt ELSE minGap
    /\ UNCHANGED <<callVars, immediate, response, queueResponse, pollMode, requestAt,
                   elapsed, sleeps, lastBody, pollOutcome, pollLog>>
    /\ Continue("pollGet")

\* lines 43, 70: the loop condition fails
PollTimesOut ==
    /\ pc = "pollHead"
    /\ ~LoopCondition(elapsed, DefaultTimeout)
    /\ UNCHANGED <<callVars, immediate, response, queueResponse, pollMode, requestAt,
                   elapsed, checks, sleeps, lastCheckAt, minGap, lastBody>>
    /\ PollEnds(PollThrew(TimeoutMessage))

\* lines 45-63: the status query resolves after lat ms
StatusResponds(b, lat) ==
    /\ pc = "pollGet"
    /\ elapsed' = elapsed + lat
    /\ lastBody' = b
    /\ UNCHANGED <<callVars, immediate, response, queueResponse, pollMode, requestAt,
                   checks, sleeps, lastCheckAt, minGap>>
    /\ CASE PollVerdict(b) = "return" -> PollEnds(PollReturned(b))
         [] PollVerdict(b) = "throw" -> PollEnds(PollThrew(FailureMessage(b.error)))
         [] OTHER -> Continue("pollSleep") /\ UNCHANGED <<pollOutcome, pollLog>>

StatusGetFails_Retries(e, lat) ==
    /\ pc = "pollGet"
    /\ elapsed' = elapsed + lat
    /\ lastBody' = StatusBody("error", NoPayload, Undef)
    /\ UNCHANGED <<callVars, immediate, response, queueResponse, pollMode, requestAt,
                   checks, sleeps, lastCheckAt, minGap, pollOutcome, pollLog>>
    /\ Continue("pollSleep")

\* lines 45, 64-67: the status query rejects after lat ms and the error is rethrown
StatusGetFails(e, lat) ==
    /\ pc = "pollGet"
    /\ elapsed' = elapsed + lat
    /\ lastBody' = StatusBody("error", NoPayload, Undef)
    /\ UNCHANGED <<callVars, immediate, response, queueResponse, pollMode, requestAt,
                   checks, sleeps, lastCheckAt, minGap>>
    /\ PollEnds(PollThrew(e))

\* line 63: the sleep between two checks ends
SleepElapses(over) ==
    /\ pc = "pollSleep"
    /\ elapsed' = elapsed + SleepTime(DefaultInterval, over)
    /\ sleeps' = sleeps + 1
    /\ UNCHANGED <<callVars, immediate, response, queueResponse, pollMode, requestAt,
                   checks, lastCheckAt, minGap, lastBody, pollOutcome, pollLog>>
    /\ Continue("pollHead")

PollSettled_AlwaysFallsBack ==
    /\ pc = "pollSettled"
    /\ pollLog' = Append(pollLog, [mode |-> pollMode, outcome |-> pollOutcome.status,
                                   output |-> pollOutcome.output])
    /\ pollMode' = "none"
    /\ requestAt' = Undef
    /\ elapsed' = 0
    /\ checks' = 0
    /\ sleeps' = 0
    /\ lastCheckAt' = 0
    /\ minGap' = -1
    /\ lastBody' = NoBody
    /\ pollOutcome' = NoOutcome
    /\ UNCHANGED <<callVars, immediate, response, queueResponse>>
    /\ IF pollOutcome.status = "returned"
         THEN Finish(Returned(PolledResult(pollOutcome.output, requestAt)))
         ELSE FallBack

\* The awaiting executeModelRequest resumes with pollStatus's outcome.
\* Lines 92-96: the immediate handle's poll is awaited inside the try block, so a
\* throw lands in the catch of line 100 and the job is submitted to the queue.
\* Lines 144-148: the queued handle's poll is awaited inside the catch block, so
\* a throw leaves executeModelRequest.
PollSettled ==
    /\ pc = "pollSettled"
    /\ pollLog' = Append(pollLog, [mode |-> pollMode, outcome |-> pollOutcome.status,
                                   output |-> pollOutcome.output])
    /\ pollMode' = "none"
    /\ requestAt' = Undef
    /\ elapsed' = 0
    /\ checks' = 0
    /\ sleeps' = 0
    /\ lastCheckAt' = 0
    /\ minGap' = -1
    /\ lastBody' = NoBody
    /\ pollOutcome' = NoOutcome
    /\ UNCHANGED <<callVars, immediate, response, queueResponse>>
    /\ IF pollOutcome.status = "returned"
         THEN Finish(Returned(PolledResult(pollOutcome.output, requestAt)))
         ELSE IF pollMode = "immediate"
           THEN FallBack
           ELSE Finish(Threw(pollOutcome.error))

(***************************************************************************)
(* Text-model responses and their parsing                                  *)
(* (generateBrandResearch 445-500, generateScriptContent 561-586)          *)
(*                                                                         *)
(* A response text is a sequence of tokens.  The fence marker, the tag     *)
(* json, a newline, a space, a C1 control character and a piece of prose *)
(* are tokens; a serialized JSON document is null, or an opening         *)
(* fragment that ends inside a string literal, the tokens of that string,  *)
(* and the closing fragment.                                               *)
(***************************************************************************)

\* the fence marker: three backquote characters
FENCE == "<fence>"
TAG == "json"
NL == "\n"
SP == " "
\* U+0085, a C1 control character
NEL == "<U+0085>"
PROSE == "Here is the analysis you asked for:"
NULL == "null"

\* JavaScript whitespace (String.prototype.trim, \s) among the tokens
Whitespace == {NL, SP}
\* [\u0000-\u001F\u007F-\u009F]
ControlChars == {NL, NEL}
\* tokens that may stand unescaped inside a JSON string literal
StringSafe == {FENCE, TAG, SP, NEL, PROSE}

FiveSections ==
    {"brandEssence", "creativeOpportunities", "strategicContext", "brandVoice",
     "implementation"}

\* the shapes of JSON document the model distinguishes
Shapes ==
    {"research", "partialResearch", "array", "script", "scriptNoSections",
     "scriptSectionsString"}

Open(shape) ==
    CASE shape = "research" -> "{\"brandEssence\":{},\"creativeOpportunities\":{},\"strategicContext\":{},\"brandVoice\":{},\"implementation\":{\"opportunities\":\""
      [] shape = "partialResearch" -> "{\"brandEssence\":{},\"implementation\":{\"opportunities\":\""
      [] shape = "array" -> "[\""
      [] shape = "script" -> "{\"transitions\":[],\"sections\":[{\"narrativeContent\":\""
      [] shape = "scriptNoSections" -> "{\"transitions\":[\""
      [] shape = "scriptSectionsString" -> "{\"sections\":\""

Close(shape) ==
    CASE shape \in {"research", "partialResearch"} -> "\"}}"
      [] shape = "array" -> "\"]"
      [] shape = "script" -> "\"}]}"
      [] shape = "scriptNoSections" -> "\"]}"
      [] shape = "scriptSectionsString" -> "\"}"

TopLevelKeys(shape) ==
    CASE shape = "research" -> FiveSections
      [] shape = "partialResearch" -> {"brandEssence", "implementation"}
      [] shape = "script" -> {"transitions", "sections"}
      [] shape = "scriptNoSections" -> {"transitions"}
      [] shape = "scriptSectionsString" -> {"sections"}
      [] OTHER -> {}

NoRaw == <<Undef>>

\* A JavaScript value: its type, its top-level keys, what its sections is, the
\* tokens of its string leaf, and its rawResponse field.
JsValue(type, shape, ks, sections, str, raw) ==
    [type |-> type, shape |-> shape, keys |-> ks, sections |-> sections, str |-> str,
     rawResponse |-> raw]

JsonNull == JsValue("null", "null", {}, "absent", <<>>, NoRaw)

\* the value a document of the given shape and string content denotes
Document(shape, str) ==
    JsValue(IF shape = "array" THEN "array" ELSE "object", shape, TopLevelKeys(shape),
            CASE shape = "script" -> "array"
              [] shape = "scriptSectionsString" -> "string"
              [] OTHER -> "absent",
            str, NoRaw)

\* JSON.stringify of a value the model distinguishes
Serialize(v) ==
    IF v.type = "null" THEN <<NULL>> ELSE <<Open(v.shape)>> \o v.str \o <<Close(v.shape)>>

RECURSIVE TrimStart(_)
TrimStart(t) ==
    IF t # <<>> /\ Head(t) \in Whitespace THEN TrimStart(Tail(t)) ELSE t

RECURSIVE TrimEnd(_)
TrimEnd(t) ==
    IF t # <<>> /\ t[Len(t)] \in Whitespace THEN TrimEnd(SubSeq(t, 1, Len(t) - 1)) ELSE t

\* String.prototype.trim
Trim(t) == TrimEnd(TrimStart(t))

ParseFailed == [ok |-> FALSE, value |-> JsonNull]
Parsed(v) == [ok |-> TRUE, value |-> v]

\* JSON.parse: one document, with JSON whitespace allowed around it
JsonParse(t) ==
    LET u == Trim(t) IN
    IF u = <<NULL>> THEN Parsed(JsonNull)
    ELSE IF Len(u) >= 2
            /\ \E sh \in Shapes : u[1] = Open(sh) /\ u[Len(u)] = Close(sh)
            /\ \A i \in 2..(Len(u) - 1) : u[i] \in StringSafe
         THEN Parsed(Document(CHOOSE sh \in Shapes : u[1] = Open(sh),
                              SubSeq(u, 2, Len(u) - 1)))
         ELSE ParseFailed

\* does /<fence>(?:json)?\n/ match at position i, and where does it end
OpensAt(t, i) ==
    /\ i <= Len(t) /\ t[i] = FENCE
    /\ \/ i + 1 <= Len(t) /\ t[i + 1] = NL
       \/ i + 2 <= Len(t) /\ t[i + 1] = TAG /\ t[i + 2] = NL
AfterOpen(t, i) == IF t[i + 1] = TAG THEN i + 3 ELSE i + 2

\* positions k >= c where /\n<fence>/ matches
ClosesAt(t, c) == {k \in c..(Len(t) - 1) : t[k] = NL /\ t[k + 1] = FENCE}
Least(S) == CHOOSE x \in S : \A y \in S : x <= y

\* line 452: researchText.match(/<fence>(?:json)?\n([\s\S]*?)\n<fence>/): the leftmost
\* opening marker that has a closing one after it, up to the first such closing
FencedBlock(t) ==
    LET starts == {i \in 1..Len(t) : OpensAt(t, i) /\ ClosesAt(t, AfterOpen(t, i)) # {}} IN
    IF starts = {} THEN [found |-> FALSE, capture |-> <<>>]
    ELSE LET i == Least(starts)
             c == AfterOpen(t, i)
             k == Least(ClosesAt(t, c))
         IN [found |-> TRUE, capture |-> SubSeq(t, c, k - 1)]

\* .replace(/<fence>json\n?/g, '')
RECURSIVE ReplaceFenceJson(_)
ReplaceFenceJson(t) ==
    IF t = <<>> THEN <<>>
    ELSE IF Len(t) >= 2 /\ t[1] = FENCE /\ t[2] = TAG
         THEN IF Len(t) >= 3 /\ t[3] = NL
              THEN ReplaceFenceJson(SubSeq(t, 4, Len(t)))
              ELSE ReplaceFenceJson(SubSeq(t, 3, Len(t)))
         ELSE <<Head(t)>> \o ReplaceFenceJson(Tail(t))

\* .replace(/<fence>\n?/g, '')
RECURSIVE ReplaceFence(_)
ReplaceFence(t) ==
    IF t = <<>> THEN <<>>
    ELSE IF t[1] = FENCE
         THEN IF Len(t) >= 2 /\ t[2] = NL
              THEN ReplaceFence(SubSeq(t, 3, Len(t)))
              ELSE ReplaceFence(Tail(t))
         ELSE <<Head(t)>> \o ReplaceFence(Tail(t))

\* .replace(/[\u0000-\u001F\u007F-\u009F]/g, '')
IsPrintable(c) == c \notin ControlChars
RemoveControlChars(t) == SelectSeq(t, IsPrintable)

\* .replace(/\n\s*\n/g, '\n'): a newline, whitespace, and the last newline of
\* that run of whitespace become one newline
RECURSIVE CollapseBlankLines(_)
CollapseBlankLines(t) ==
    IF t = <<>> THEN <<>>
    ELSE IF t[1] = NL
         THEN LET run == {m \in 1..Len(t) : \A j \in 1..m : t[j] \in Whitespace}
                  ends == {k \in run : k >= 2 /\ t[k] = NL}
              IN IF ends = {} THEN <<NL>> \o CollapseBlankLines(Tail(t))
                 ELSE LET k == CHOOSE x \in ends : \A y \in ends : y <= x
                      IN <<NL>> \o CollapseBlankLines(SubSeq(t, k + 1, Len(t)))
         ELSE <<Head(t)>> \o CollapseBlankLines(Tail(t))

\* lines 461-464
CleanResearchText(researchText) == Trim(ReplaceFence(ReplaceFenceJson(researchText)))

PlaceholderResearch_CleanedText(researchText) ==
    JsValue("object", "placeholder", FiveSections \cup {"rawResponse"}, "absent",
            researchText, CleanResearchText(researchText))

\* lines 471-498: the object built when both parses fail
PlaceholderResearch(researchText) ==
    JsValue("object", "placeholder", FiveSections \cup {"rawResponse"}, "absent",
            researchText, researchText)

\* lines 452-453: jsonMatch = match || [null, researchText]; jsonMatch[1].trim()
FirstJsonStr(researchText) ==
    LET m == FencedBlock(researchText) IN
    Trim(IF m.found THEN m.capture ELSE researchText)

\* lines 448-500: the research ladder
ParseResearch(researchText) ==
    LET first == JsonParse(FirstJsonStr(researchText)) IN
    IF first.ok THEN first.value
    ELSE LET second == JsonParse(CleanResearchText(researchText)) IN
         IF second.ok THEN second.value ELSE PlaceholderResearch(researchText)

\* lines 564-569
CleanScriptContent(content) ==
    Trim(CollapseBlankLines(RemoveControlChars(ReplaceFence(ReplaceFenceJson(content)))))

ScriptReturned(v) == [status |-> "returned", value |-> v, error |-> Undef]
ScriptThrew(msg) == [status |-> "threw", value |-> JsonNull, error |-> msg]

ValidScript_Any(v) == TRUE

\* lines 575-577: !parsedContent.sections || !Array.isArray(parsedContent.sections)
ValidScript(v) == v.sections = "array"

ParseScript_Placeholder(content) ==
    LET p == JsonParse(CleanScriptContent(content)) IN
    IF p.ok /\ p.value.type # "null" /\ ValidScript(p.value) THEN ScriptReturned(p.value)
    ELSE ScriptReturned(Document("script", content))

\* lines 557-586
ParseScript(content) ==
    IF content = <<>> THEN ScriptThrew("Invalid response format from API")
    ELSE LET p == JsonParse(CleanScriptContent(content)) IN
         IF ~p.ok THEN ScriptThrew("Failed to parse script content: Unexpected token")
         ELSE IF p.value.type = "null"
              THEN ScriptThrew("Failed to parse script content: Cannot read properties of null (reading 'sections')")
         ELSE IF ~ValidScript(p.value)
              THEN ScriptThrew("Failed to parse script content: Invalid script structure in response")
         ELSE ScriptReturned(p.value)

NextExec ==
    \/ \E p \in Prompts : generateImage(p)
    \/ \E p \in Prompts : generateVideo(p)
    \/ \E r \in ProviderResponses : RequestResolves(r)
    \/ \E e \in RequestErrors : RequestRejects(e)
    \/ \E r \in ProviderResponses : SubscribeResolves(r)
    \/ \E e \in SubscribeErrors : SubscribeRejects(e)
    \/ PollCheck
    \/ PollTimesOut
    \/ \E b \in StatusBodies, lat \in GetLatencies : StatusResponds(b, lat)
    \/ \E e \in StatusGetErrors, lat \in GetLatencies : StatusGetFails(e, lat)
    \/ \E over \in SleepOvershoots : SleepElapses(over)
    \/ PollSettled

\* the executor with the queue's updates delivered
NextQueue ==
    \/ NextExec
    \/ \E update \in QueueUpdates : QueueUpdate(update)

(***************************************************************************)
(* The text-model calls: POST /generate/research (index.js 142-193) over   *)
(* generateBrandResearch, and generateScriptContent                        *)
(***************************************************************************)

\* longest string leaf of a generated JSON document, in tokens
MaxStrLen == 1
\* longest response text made of arbitrary tokens
MaxTextLen == 2
\* most research requests followed
MaxResearchRuns == 2

RECURSIVE SeqsUpTo(_, _)
SeqsUpTo(S, n) ==
    IF n = 0 THEN {<<>>}
    ELSE LET shorter == SeqsUpTo(S, n - 1) IN
         shorter \cup {Append(t, x) : t \in shorter, x \in S}

Documents ==
    {JsonNull} \cup {Document(sh, c) : sh \in Shapes, c \in SeqsUpTo(StringSafe, MaxStrLen)}

\* response bodies that are no JSON document: prose, a document cut short, and a
\* document with a raw newline inside its string
BrokenBodies ==
    {<<PROSE>>, <<Open("research"), PROSE>>, <<Open("script"), NL, Close("script")>>}

Prefixes == {<<>>, <<PROSE, NL>>, <<FENCE, NL, PROSE, NL, FENCE, NL>>}
Openers == {<<>>, <<FENCE, NL>>, <<FENCE, TAG, NL>>, <<FENCE, TAG>>}
Closers == {<<>>, <<NL, FENCE>>, <<FENCE>>}
Suffixes == {<<>>, <<NL, PROSE>>}
Alphabet == {FENCE, TAG, NL, SP, PROSE, NULL, Open("research"), Close("research")}

\* the fences of a fenced code block: the marker, optionally tagged json, on a
\* line of its own before the body and after it
StandardOpeners == {<<FENCE, NL>>, <<FENCE, TAG, NL>>}
StandardCloser == <<NL, FENCE>>

Wrapped(isDoc, doc, pre, op, cl, post) ==
    [isDoc |-> isDoc, doc |-> doc, prefix |-> pre, opener |-> op, closer |-> cl,
     suffix |-> post]
NotWrapped == Wrapped(FALSE, JsonNull, <<>>, <<>>, <<>>, <<>>)

\* brandInfo is a structured record or a free text (index.js 144, 155)
StructuredBrand(name) == [kind |-> "object", name |-> name, words |-> <<>>]
TextBrand(words) == [kind |-> "string", name |-> Undef, words |-> words]
BrandInfos == {StructuredBrand("Acme"), TextBrand(<<"Acme", "makes", "anvils">>)}
NoBrand == TextBrand(<<>>)

\* The key conversationHistory.set(brandInfo, ...) files an entry under
\* (mediaGenerator.js 503): a Map compares a string key by its value and an object
\* key by its identity, and every request body is parsed into an object of its own
MapKey(b, n) == [value |-> b, ref |-> IF b.kind = "object" THEN n ELSE 0]

\* index.js 155: typeof brandInfo === 'object' ? brandInfo.name : brandInfo.split(' ')[0]
ResearchKey(b) == IF b.kind = "object" THEN b.name ELSE b.words[1]

NoScript == [status |-> "none", value |-> JsonNull, error |-> Undef]

ParseIdle ==
    /\ parsePc = "idle"
    /\ brandInfo = NoBrand
    /\ researchRuns = 0
    /\ researchReturn = JsonNull
    /\ conversationHistory = <<>>
    /\ researchStore = <<>>
    /\ scriptReturn = NoScript

\* no text-model call is followed
InitNoText ==
    /\ ParseIdle
    /\ modelText = <<>>
    /\ wrapped = NotWrapped

\* the text model may answer with any of the response texts
InitParse ==
    /\ ParseIdle
    /\ \/ \E pre \in Prefixes, op \in Openers, cl \in Closers, post \in Suffixes :
            \/ \E d \in Documents :
                   /\ modelText = pre \o op \o Serialize(d) \o cl \o post
                   /\ wrapped = Wrapped(TRUE, d, pre, op, cl, post)
            \/ \E b \in BrokenBodies :
                   /\ modelText = pre \o op \o b \o cl \o post
                   /\ wrapped = NotWrapped
       \/ /\ modelText \in SeqsUpTo(Alphabet, MaxTextLen)
          /\ wrapped = NotWrapped

\* index.js 142-163 and mediaGenerator.js 398-443: the request passes the
\* brandInfo check and the prompt is posted to the text model
PostResearch(b) ==
    /\ parsePc = "idle"
    /\ researchRuns < MaxResearchRuns
    /\ researchRuns' = researchRuns + 1
    /\ parsePc' = "awaitResearch"
    /\ brandInfo' = b
    /\ UNCHANGED <<modelText, wrapped, researchReturn, conversationHistory, researchStore,
                   scriptReturn, execVars, taskVars, pipeVars>>

\* mediaGenerator.js 445-516 and index.js 163-184: the text model answers, the
\* answer is parsed, stored under brandInfo, returned and stored under researchKey
ResearchResponds ==
    /\ parsePc = "awaitResearch"
    /\ parsePc' = "research"
    /\ researchReturn' = ParseResearch(modelText)
    /\ conversationHistory' =
          (MapKey(brandInfo, researchRuns) :> researchReturn') @@ conversationHistory
    /\ researchStore' =
          (ResearchKey(brandInfo) :> [research |-> researchReturn', brandInfo |-> brandInfo])
              @@ researchStore
    /\ UNCHANGED <<modelText, wrapped, brandInfo, researchRuns, scriptReturn, execVars, taskVars,
                   pipeVars>>

\* mediaGenerator.js 528-549: the script prompt is posted to the text model
CallScriptContent ==
    /\ parsePc = "idle"
    /\ parsePc' = "awaitScript"
    /\ UNCHANGED <<modelText, wrapped, brandInfo, researchRuns, researchReturn,
                   conversationHistory, researchStore, scriptReturn, execVars, taskVars, pipeVars>>

\* mediaGenerator.js 551-593: the text model answers and the answer is parsed
ScriptResponds ==
    /\ parsePc = "awaitScript"
    /\ parsePc' = "script"
    /\ scriptReturn' = ParseScript(modelText)
    /\ UNCHANGED <<modelText, wrapped, brandInfo, researchRuns, researchReturn,
                   conversationHistory, researchStore, execVars, taskVars, pipeVars>>

NextParse ==
    \/ \E b \in BrandInfos : PostResearch(b)
    \/ ResearchResponds
    \/ CallScriptContent
    \/ ScriptResponds

(***************************************************************************)
(* The session pipeline: POST /generate/script (index.js 196-401) and the  *)
(* other asset-generation handlers, over generateScript,                   *)
(* generateMediaPrompts, generateImage / generateVideo and                 *)
(* saveAssetsToDrive.  A call of generateImage or generateVideo is one     *)
(* step here: it resolves with a url or rejects.                           *)
(***************************************************************************)

\* most requests followed, research requests among them
MaxRuns == 3
\* most visual elements in a generated script, most prompts in a request
MaxElements == 3

\* the handlers that generate assets
ScriptHandler == "POST /generate/script"
MediaHandler == "POST /generate/media"
MediaRouter == "mediaRouter POST /"
MediaGenerationRouter == "mediaGenerationRouter POST /generate"
Handlers == {ScriptHandler, MediaHandler, MediaRouter, MediaGenerationRouter}

\* visualElements of a script section: a string is a sequence of words
HeroShot == <<"Hero", "shot", "of", "the", "product">>
LogoAnimation == <<"Logo", "Animation">>
\* an element that is no string (a number, an object)
NotAString == <<"{}">>
Elements == {HeroShot, LogoAnimation, NotAString}
\* n copies of e
RECURSIVE Repeat(_, _)
Repeat(e, n) == IF n = 0 THEN <<>> ELSE <<e>> \o Repeat(e, n - 1)
\* the visualElements of a generated script: none, one or many still elements,
\* then none or several motion elements
ElementLists ==
    {Repeat(HeroShot, k) \o Repeat(LogoAnimation, m) :
        k \in {0, 1, MaxElements}, m \in {0, MaxElements - 1}}
        \cup {<<NotAString>>, <<NotAString, LogoAnimation>>}

\* String.prototype.toLowerCase, word by word
ToLowerCase(w) ==
    CASE w = "Hero" -> "hero"
      [] w = "Logo" -> "logo"
      [] w = "Animation" -> "animation"
      [] OTHER -> w

\* mediaPromptGenerator.mcp.js 166-168: element.toLowerCase().includes(...)
IsMotionElement(e) ==
    \E i \in 1..Len(e) : ToLowerCase(e[i]) \in {"animation", "motion", "transition"}
IsStillElement(e) == ~IsMotionElement(e)

\* mediaPromptGenerator.mcp.js 165: typeof element === 'string'
IsString(e) == e # NotAString

DefaultImagePrompt == <<"Dynamic", "brand", "showcase", "with", "modern", "aesthetic">>
DefaultAnimationPrompt == <<"Smooth", "brand", "logo", "animation">>
SectionlessImagePrompt == <<"Dynamic", "shot", "showcasing", "brand", "identity", "and", "values">>
SectionlessAnimationPrompt ==
    <<"Smooth", "brand", "logo", "animation", "with", "dynamic", "transitions">>

\* a script as the handlers see it: the parsed value and its sections' visualElements
ScriptOf(v, elems) == [value |-> v, visualElements |-> elems]
NoScriptData == ScriptOf(JsonNull, <<>>)

\* mediaPromptGenerator.mcp.js 145: !script?.sections || !Array.isArray(script.sections)
HasSections(sc) == sc.value.sections = "array"

\* mediaPromptGenerator.mcp.js 161-185: the prompts found in the sections
FoundPrompts(sc) ==
    [images |-> SelectSeq(sc.visualElements,
                          LAMBDA e : IsString(e) /\ IsStillElement(e)),
     animations |-> SelectSeq(sc.visualElements,
                              LAMBDA e : IsString(e) /\ IsMotionElement(e))]

VisualPrompts_NoDefaults(sc) ==
    IF HasSections(sc) THEN FoundPrompts(sc)
    ELSE [images |-> <<SectionlessImagePrompt>>,
          animations |-> <<SectionlessAnimationPrompt>>]

\* mediaPromptGenerator.mcp.js 139-205: the prompts taken from a script
VisualPrompts(sc) ==
    LET found == IF HasSections(sc)
                 THEN FoundPrompts(sc)
                 ELSE [images |-> <<SectionlessImagePrompt>>,
                       animations |-> <<SectionlessAnimationPrompt>>]
    IN [images |-> IF found.images = <<>> THEN <<DefaultImagePrompt>> ELSE found.images,
        animations |-> IF found.animations = <<>> THEN <<DefaultAnimationPrompt>>
                       ELSE found.animations]

NoPrompts == [images |-> <<>>, animations |-> <<>>]

\* Array.prototype.slice(0, n)
Slice(s, n) == SubSeq(s, 1, IF Len(s) < n THEN Len(s) ELSE n)

\* index.js 290: .slice(0, 2), and 318: .slice(0, 1)
ImageCap == 2
AnimationCap == 1

\* index.js 290 and 318; the other handlers iterate over every prompt
ImageTargets(h, prompts) ==
    IF h = ScriptHandler THEN Slice(prompts.images, ImageCap) ELSE prompts.images
AnimationTargets(h, prompts) ==
    IF h = ScriptHandler THEN Slice(prompts.animations, AnimationCap) ELSE prompts.animations

\* which handlers hand the assets to saveAssetsToDrive (index.js 353,
\* mediaGeneration.js 92)
Persists(h) == h \in {ScriptHandler, MediaGenerationRouter}

\* which handlers catch the failure of one generation and go on (index.js 309,
\* 339, 487; part_004 38, 62; mediaGeneration.js 54); the video branches of
\* index.js 496 and mediaGeneration.js 80-82 let it reach the handler's catch
CatchesPerItem_Never(h, type) == FALSE
CatchesPerItem(h, type) ==
    \/ type = "image"
    \/ h \in {ScriptHandler, MediaRouter}

\* how generateImage / generateVideo may settle
GenUrl(type) ==
    IF type = "image" THEN "https://fal.media/files/img.png"
    ELSE "https://fal.media/files/clip.mp4"
GenSettlements(type) ==
    {Resolved(GenUrl(type))}
        \cup {Rejected(IF type = "image" THEN "Failed to generate image: "
                       ELSE "Failed to generate video: ", m) :
                 m \in {TimeoutMessage, FailureMessage("quota exceeded")}}

\* An asset.  index.js 298-306 stores image.url; index.js 474-481 and
\* mediaGeneration.js 46-53 store the whole object generateImage resolved with;
\* part_004 30-37 spreads that object, so url is its url.
Asset(h, type, settled) ==
    [type |-> type, url |-> settled.url,
     urlIsString |-> h \in {ScriptHandler, MediaRouter}, folderId |-> Undef]

\* storageService.js 314-322
SavedAsset(asset, folder) ==
    [type |-> asset.type, url |-> "https://drive.google.com/file/d/view",
     urlIsString |-> TRUE, folderId |-> folder.id]

\* storageService.js 59: sessionKey
SessionKey(brand, sessionId) == brand \o "_" \o sessionId
\* mediaGenerator.js 676 and mediaPromptGenerator.mcp.js 225
ScriptStorageKey(name) == "script_" \o name
MediaPromptsStorageKey(brandName) ==
    "media_prompts_" \o (IF Truthy(brandName) THEN brandName ELSE "default")

\* how the Drive calls of createOrGetFolder (storageService.js 76-110) may end
FolderOutcomes == {"listFailed", "found", "created", "createFailed", "shareFailed"}
\* how the calls made for one asset (storageService.js 265-303) may end
SaveOutcomes == {"saved", "downloadFailed", "uploadFailed", "shareFailed"}

\* res.status(s).json(...)
NoMetadata == [keys |-> {}, totalAssets |-> -1, totalGenerated |-> -1]
Response(status, ok, error, returned, metadata) ==
    [status |-> status, ok |-> ok, error |-> error, assets |-> returned,
     metadata |-> metadata]
NoResponse == Response(0, FALSE, Undef, <<>>, NoMetadata)
ErrorResponse(status, error) == Response(status, FALSE, error, <<>>, NoMetadata)

\* index.js 382-388, 515-519; part_004 71-76; mediaGeneration.js 97-101
Metadata(h, returned) ==
    CASE h = ScriptHandler ->
           [keys |-> {"model", "timestamp", "totalAssets", "assetTypes", "folderUrls"},
            totalAssets |-> Len(returned), totalGenerated |-> -1]
      [] h = MediaHandler ->
           [keys |-> {"timestamp", "totalGenerated", "types"},
            totalAssets |-> -1, totalGenerated |-> Len(returned)]
      [] h = MediaRouter ->
           [keys |-> {"model", "timestamp", "totalAssets", "assetTypes"},
            totalAssets |-> Len(returned), totalGenerated |-> -1]
      [] h = MediaGenerationRouter ->
           [keys |-> {"timestamp", "totalAssets", "assetTypes"},
            totalAssets |-> Len(returned), totalGenerated |-> -1]

\* index.js 371-389, 505-520; part_004 68-77; mediaGeneration.js 94-102: only
\* POST /generate/media (505-510) refuses an empty asset list
FinalResponse(h, returned) ==
    IF h = MediaHandler /\ returned = <<>>
    THEN ErrorResponse(500, "No assets were generated successfully")
    ELSE Response(200, TRUE, Undef, returned, Metadata(h, returned))

\* what a request body carries; prompts are params.prompts (type image), the one
\* params.prompt (type video) or mediaPrompts.visualPrompts
Request(sid, goals, audience, type, hasParams, hasPrompts, prompts) ==
    [sessionId |-> sid, campaignGoals |-> goals, targetAudience |-> audience,
     type |-> type, hasParams |-> hasParams, hasPrompts |-> hasPrompts,
     prompts |-> prompts]
NoRequest == Request(Undef, Undef, Undef, Undef, FALSE, FALSE, NoPrompts)

ScriptRequests ==
    {Request(sid, goals, audience, Undef, FALSE, FALSE, NoPrompts) :
        sid \in {Undef, "Acme", "Globex"}, goals \in {Undef, "launch"},
        audience \in {Undef, "founders"}}

PromptLists == SeqsUpTo({HeroShot}, MaxElements)

\* bodies of POST /generate/media and of the media-generation router: {type, params}
MediaRequests ==
    {Request(Undef, Undef, Undef, "image", TRUE, TRUE, [images |-> ps, animations |-> <<>>]) :
        ps \in PromptLists}
        \cup {Request(Undef, Undef, Undef, "video", TRUE, FALSE,
                      [images |-> <<>>, animations |-> <<LogoAnimation>>]),
              Request(Undef, Undef, Undef, "image", TRUE, FALSE, NoPrompts),
              Request(Undef, Undef, Undef, "audio", TRUE, FALSE, NoPrompts),
              Request(Undef, Undef, Undef, "image", FALSE, FALSE, NoPrompts),
              Request(Undef, Undef, Undef, Undef, TRUE, FALSE, NoPrompts)}

\* bodies of the media router: {mediaPrompts}
MediaRouterRequests ==
    {Request(Undef, Undef, Undef, Undef, TRUE, TRUE, [images |-> ps, animations |-> ms]) :
        ps \in PromptLists, ms \in SeqsUpTo({LogoAnimation}, MaxElements - 1)}
        \cup {NoRequest}

NoResearch == [research |-> JsonNull, brandInfo |-> NoBrand]
NoCalls == [text |-> 0, image |-> 0, video |-> 0, storage |-> 0]

InitPipe ==
    /\ pipePc = "idle"
    /\ handler = "none"
    /\ request = NoRequest
    /\ research = NoResearch
    /\ script = NoScriptData
    /\ mediaPrompts = NoPrompts
    /\ attempts = <<>>
    /\ assets = <<>>
    /\ savedAssets = <<>>
    /\ saveLog = <<>>
    /\ calls = NoCalls
    /\ httpResponse = NoResponse
    /\ runs = 0
    /\ sessionFolders = <<>>
    /\ driveFolders = 0
    /\ scriptHistory = <<>>
    /\ mediaPromptHistory = <<>>
    /\ latestScriptData = NoScriptData

\* no request is being handled: requests are followed one at a time
Quiet == pipePc \in {"idle", "responded"} /\ parsePc = "idle"

\* a request may arrive
Ready == Quiet /\ runs + researchRuns < MaxRuns

\* a handler is entered: nothing of the former request is left
Enter(h, r) ==
    /\ handler' = h
    /\ request' = r
    /\ runs' = runs + 1
    /\ attempts' = <<>>
    /\ assets' = <<>>
    /\ savedAssets' = <<>>
    /\ saveLog' = <<>>

\* the handler answers before anything was called
Refuse(status, error) ==
    /\ pipePc' = "responded"
    /\ httpResponse' = ErrorResponse(status, error)
    /\ calls' = NoCalls
    /\ script' = NoScriptData
    /\ mediaPrompts' = NoPrompts

\* number of generations of one type attempted so far
Tried(att, type) == Cardinality({i \in DOMAIN att : att[i].type = type})

NextStage_AnimationFirst(h, prompts, att) ==
    IF Tried(att, "animation") < Len(AnimationTargets(h, prompts)) THEN "animation"
    ELSE IF Tried(att, "image") < Len(ImageTargets(h, prompts)) THEN "image"
    ELSE "assetsReady"

\* the loops of index.js 288-343 (and their like): what is awaited next
NextStage(h, prompts, att) ==
    IF Tried(att, "image") < Len(ImageTargets(h, prompts)) THEN "image"
    ELSE IF Tried(att, "animation") < Len(AnimationTargets(h, prompts)) THEN "animation"
    ELSE "assetsReady"

\* the call counters once the next stage's call is made
CallsAt(stage, c) ==
    CASE stage = "image" -> [c EXCEPT !.image = @ + 1]
      [] stage = "animation" -> [c EXCEPT !.video = @ + 1]
      [] OTHER -> c

\* index.js 196-246 and mediaGenerator.js 635-673: the request is validated, the
\* session's research is looked up, generateScript validates its inputs and posts
\* the script prompt to the text model
PostScript(r) ==
    /\ Ready
    /\ Enter(ScriptHandler, r)
    /\ UNCHANGED <<sessionFolders, driveFolders, scriptHistory, mediaPromptHistory,
                   latestScriptData, modelText, wrapped, brandInfo, researchRuns,
                   researchReturn, conversationHistory, researchStore, scriptReturn,
                   execVars, taskVars>>
    /\ IF ~Truthy(r.sessionId) \/ ~Truthy(r.campaignGoals) \/ ~Truthy(r.targetAudience)
         THEN /\ Refuse(400, "Missing required fields")
              /\ UNCHANGED <<parsePc, research>>
         ELSE IF r.sessionId \notin DOMAIN researchStore
           THEN /\ Refuse(400, "No research found")
                /\ UNCHANGED <<parsePc, research>>
           ELSE /\ research' = researchStore[r.sessionId]
                /\ IF ~Truthy(research'.brandInfo.name)
                     THEN Refuse(500, "Brand name is required") /\ UNCHANGED parsePc
                     ELSE IF research'.research.type = "null"
                       THEN Refuse(500, "Research data is required") /\ UNCHANGED parsePc
                       ELSE /\ parsePc' = "awaitScript"
                            /\ pipePc' = "generateScript"
                            /\ calls' = [NoCalls EXCEPT !.text = 1]
                            /\ httpResponse' = NoResponse
                            /\ script' = NoScriptData
                            /\ mediaPrompts' = NoPrompts

\* mediaGenerator.js 675-690, index.js 248-292 and 390-400, with
\* mediaPromptGenerator.mcp.js 134-251 in between: generateScriptContent has
\* settled and its locals are gone; on a throw the handler answers 500; otherwise
\* the script is stored, the media prompts are derived and stored, and the first
\* image is requested
GenerateScriptSettles(elems) ==
    /\ pipePc = "generateScript"
    /\ parsePc = "script"
    /\ parsePc' = "idle"
    /\ modelText' = <<>>
    /\ scriptReturn' = NoScript
    /\ UNCHANGED <<handler, request, research, runs, attempts, assets, savedAssets,
                   saveLog, sessionFolders, driveFolders, latestScriptData,
                   wrapped, brandInfo, researchRuns, researchReturn,
                   conversationHistory, researchStore, execVars, taskVars>>
    /\ IF scriptReturn.status = "threw"
         THEN /\ pipePc' = "responded"
              /\ httpResponse' = ErrorResponse(500, scriptReturn.error)
              /\ UNCHANGED <<script, mediaPrompts, calls, scriptHistory,
                             mediaPromptHistory>>
         ELSE /\ script' = ScriptOf(scriptReturn.value, elems)
              /\ scriptHistory' =
                    (ScriptStorageKey(research.brandInfo.name) :> script') @@ scriptHistory
              /\ mediaPrompts' = VisualPrompts(script')
              /\ mediaPromptHistory' =
                    (MediaPromptsStorageKey(request.sessionId) :>
                        [mediaElements |-> mediaPrompts', derivedFrom |-> script'])
                        @@ mediaPromptHistory
              /\ pipePc' = NextStage(handler, mediaPrompts', <<>>)
              /\ calls' = CallsAt(pipePc', calls)
              /\ UNCHANGED httpResponse

storeVars ==
    <<sessionFolders, driveFolders, scriptHistory, mediaPromptHistory, latestScriptData>>

\* index.js 436-503 and mediaGeneration.js 8-89: {type, params} is validated and
\* the first generation is requested
PostMedia(h, r) ==
    /\ Ready
    /\ h \in {MediaHandler, MediaGenerationRouter}
    /\ Enter(h, r)
    /\ research' = NoResearch
    /\ script' = NoScriptData
    /\ UNCHANGED <<storeVars, parseVars, execVars, taskVars>>
    /\ IF ~Truthy(r.type) \/ ~r.hasParams
         THEN /\ pipePc' = "responded"
              /\ httpResponse' = ErrorResponse(400, "Type and params are required")
              /\ mediaPrompts' = NoPrompts
              /\ calls' = NoCalls
         ELSE IF r.type = "image" /\ ~r.hasPrompts
           THEN /\ pipePc' = "responded"
                /\ httpResponse' =
                      ErrorResponse(400, "Prompts array is required for image generation")
                /\ mediaPrompts' = NoPrompts
                /\ calls' = NoCalls
           ELSE IF r.type \notin {"image", "video"}
             THEN /\ pipePc' = "responded"
                  /\ httpResponse' =
                        ErrorResponse(400, "Invalid media type. Use \"image\" or \"video\"")
                  /\ mediaPrompts' = NoPrompts
                  /\ calls' = NoCalls
             ELSE /\ mediaPrompts' = r.prompts
                  /\ pipePc' = NextStage(h, r.prompts, <<>>)
                  /\ calls' = CallsAt(pipePc', NoCalls)
                  /\ httpResponse' = NoResponse

\* part_004 7-24: {mediaPrompts} is validated and the first generation is requested
PostMediaRouter(r) ==
    /\ Ready
    /\ Enter(MediaRouter, r)
    /\ research' = NoResearch
    /\ script' = NoScriptData
    /\ UNCHANGED <<storeVars, parseVars, execVars, taskVars>>
    /\ IF ~r.hasParams
         THEN /\ pipePc' = "responded"
              /\ httpResponse' = ErrorResponse(400, "Media prompts are required")
              /\ mediaPrompts' = NoPrompts
              /\ calls' = NoCalls
         ELSE /\ mediaPrompts' = r.prompts
              /\ pipePc' = NextStage(MediaRouter, r.prompts, <<>>)
              /\ calls' = CallsAt(pipePc', NoCalls)
              /\ httpResponse' = NoResponse

\* the message of the 500 a handler's outer catch answers with (index.js 395-399,
\* 523-527; mediaGeneration.js 105-108)
CaughtError(h, message) ==
    IF h = ScriptHandler THEN message ELSE "Failed to generate media"

\* One generation settles.  A resolved one is pushed to assets; a rejected one is
\* logged where the loop catches it, and aborts the handler where it does not.
GenerationSettles(type, settled) ==
    /\ pipePc = type
    /\ settled \in GenSettlements(type)
    /\ attempts' = Append(attempts, [type |-> type, ok |-> settled.status = "resolved"])
    /\ UNCHANGED <<handler, request, research, script, mediaPrompts, runs, savedAssets,
                   saveLog, storeVars, parseVars, execVars, taskVars>>
    /\ IF settled.status = "rejected" /\ ~CatchesPerItem(handler, type)
         THEN /\ pipePc' = "responded"
              /\ httpResponse' = ErrorResponse(500, CaughtError(handler, settled.error))
              /\ UNCHANGED <<assets, calls>>
         ELSE /\ assets' = IF settled.status = "resolved"
                           THEN Append(assets, Asset(handler, type, settled))
                           ELSE assets
              /\ pipePc' = NextStage(handler, mediaPrompts, attempts')
              /\ calls' = CallsAt(pipePc', calls)
              /\ UNCHANGED httpResponse

\* index.js 290-312, 464-493; part_004 22-41; mediaGeneration.js 36-57
ImageSettles(settled) == GenerationSettles("image", settled)

\* index.js 318-342, 496-497; part_004 46-65; mediaGeneration.js 59-83
AnimationSettles(settled) == GenerationSettles("animation", settled)

\* the brand and session the assets are filed under (index.js 353; undefined in
\* mediaGeneration.js 92)
FolderKey ==
    IF handler = ScriptHandler
    THEN SessionKey(research.brandInfo.name, request.sessionId)
    ELSE SessionKey(Undef, Undef)

\* storageService.js 261-262: the loop over the assets starts, or there is none
StartSaving(c) ==
    IF assets = <<>>
    THEN pipePc' = "saved" /\ calls' = c
    ELSE pipePc' = "saving" /\ calls' = [c EXCEPT !.storage = @ + 1]

\* index.js 345-353, 505-520; part_004 68-77; mediaGeneration.js 92 with
\* storageService.js 242-252 and 56-79: the loops are over; the assets go to the
\* caller, or to saveAssetsToDrive, which looks the session's folder up
HandOn ==
    /\ pipePc = "assetsReady"
    /\ UNCHANGED <<handler, request, research, script, mediaPrompts, runs, attempts,
                   assets, savedAssets, saveLog, storeVars, parseVars, execVars, taskVars>>
    /\ IF ~Persists(handler)
         THEN /\ pipePc' = "responded"
              /\ httpResponse' = FinalResponse(handler, assets)
              /\ UNCHANGED calls
         ELSE /\ UNCHANGED httpResponse
              /\ IF FolderKey \in DOMAIN sessionFolders
                   THEN StartSaving(calls)
                   ELSE /\ pipePc' = "folder"
                        /\ calls' = [calls EXCEPT !.storage = @ + 1]

FolderId(n) == "folder-" \o ToString(n)

\* storageService.js 76-137 and 346-353: the Drive calls of createOrGetFolder end;
\* a failure leaves saveAssetsToDrive and reaches the handler's catch
FolderSettles(outcome) ==
    /\ pipePc = "folder"
    /\ UNCHANGED <<handler, request, research, script, mediaPrompts, runs, attempts,
                   assets, savedAssets, saveLog, scriptHistory, mediaPromptHistory,
                   latestScriptData, parseVars, execVars, taskVars>>
    /\ driveFolders' = IF outcome \in {"created", "shareFailed"}
                       THEN driveFolders + 1 ELSE driveFolders
    /\ IF outcome \in {"found", "created"}
         THEN /\ sessionFolders' =
                    (FolderKey :> [id |-> FolderId(driveFolders + 1)]) @@ sessionFolders
              /\ StartSaving(calls)
              /\ UNCHANGED httpResponse
         ELSE /\ pipePc' = "responded"
              /\ httpResponse' =
                    ErrorResponse(500, CaughtError(handler, "Drive request failed"))
              /\ UNCHANGED <<sessionFolders, calls>>

\* storageService.js 262-331: the download, upload and sharing of one asset end; a
\* failure is logged and the loop goes on
AssetSaveSettles(outcome) ==
    /\ pipePc = "saving"
    /\ LET asset == assets[Len(saveLog) + 1] IN
         /\ outcome = "saved" => asset.urlIsString
         /\ saveLog' = Append(saveLog, outcome = "saved")
         /\ savedAssets' = IF outcome = "saved"
                           THEN Append(savedAssets, SavedAsset(asset, sessionFolders[FolderKey]))
                           ELSE savedAssets
         /\ IF Len(saveLog') < Len(assets)
              THEN pipePc' = "saving" /\ calls' = [calls EXCEPT !.storage = @ + 1]
              ELSE pipePc' = "saved" /\ UNCHANGED calls
    /\ UNCHANGED <<handler, request, research, script, mediaPrompts, runs, attempts,
                   assets, httpResponse, storeVars, parseVars, execVars, taskVars>>

\* index.js 354-389 and mediaGeneration.js 94-102: saveAssetsToDrive returned
Respond ==
    /\ pipePc = "saved"
    /\ pipePc' = "responded"
    /\ latestScriptData' = IF handler = ScriptHandler THEN script ELSE latestScriptData
    /\ httpResponse' = FinalResponse(handler, savedAssets)
    /\ UNCHANGED <<handler, request, research, script, mediaPrompts, runs, attempts,
                   assets, savedAssets, saveLog, calls, sessionFolders, driveFolders,
                   scriptHistory, mediaPromptHistory, parseVars, execVars, taskVars>>

\* the texts the text model answers a research prompt and a script prompt with,
\* besides the empty text
ResearchTexts == {<<NULL>>}
ScriptTexts ==
    {<<NULL>>, <<PROSE>>,
     <<FENCE, TAG, NL>> \o Serialize(Document("script", <<>>)) \o <<NL, FENCE>>,
     Serialize(Document("scriptNoSections", <<>>))}

\* mediaGenerator.js 436-446 and 530-561: the text model's answer to the prompt
\* posted; without this step the answer is the empty text
TextModelPrepares(t) ==
    /\ \/ parsePc = "awaitResearch" /\ t \in ResearchTexts
       \/ parsePc = "awaitScript" /\ t \in ScriptTexts
    /\ modelText = <<>>
    /\ modelText' = t
    /\ UNCHANGED <<parsePc, wrapped, brandInfo, researchRuns, researchReturn,
                   conversationHistory, researchStore, scriptReturn, execVars, taskVars, pipeVars>>

\* index.js 142-163: a research request arrives
ResearchArrives(b) == Ready /\ PostResearch(b)

\* index.js 172-184: the research response is sent and the handler's locals are gone
ResearchReplied ==
    /\ parsePc = "research"
    /\ parsePc' = "idle"
    /\ brandInfo' = NoBrand
    /\ researchReturn' = JsonNull
    /\ modelText' = <<>>
    /\ UNCHANGED <<wrapped, researchRuns, conversationHistory, researchStore,
                   scriptReturn, execVars, taskVars, pipeVars>>

ResearchHandler == "POST /generate/research"

\* how the request to the text model may fail: axios.post rejects (mediaGenerator.js
\* 436), fetch answers with a status that is not ok (line 548)
ResearchCallErrors == {"Request failed with status code 503"}
ScriptCallErrors == {"API request failed with status 503"}

\* the research handler answers 500 and its locals are gone
ResearchRefused ==
    /\ parsePc' = "idle"
    /\ brandInfo' = NoBrand
    /\ modelText' = <<>>
    /\ handler' = ResearchHandler
    /\ request' = NoRequest
    /\ research' = NoResearch
    /\ attempts' = <<>>
    /\ assets' = <<>>
    /\ savedAssets' = <<>>
    /\ saveLog' = <<>>
    /\ Refuse(500, "Failed to generate research")

ResearchCallFails_StoresNothingFound(e) ==
    /\ parsePc = "awaitResearch"
    /\ ResearchRefused
    /\ researchStore' =
          (ResearchKey(brandInfo) :> [research |-> JsonNull, brandInfo |-> brandInfo])
              @@ researchStore
    /\ UNCHANGED <<wrapped, researchRuns, researchReturn, conversationHistory,
                   scriptReturn, runs, storeVars, execVars, taskVars>>

\* mediaGenerator.js 436-443 and 517-520, index.js 185-192: the request to the
\* text model fails; generateBrandResearch rethrows and the handler's catch answers
ResearchCallFails(e) ==
    /\ parsePc = "awaitResearch"
    /\ ResearchRefused
    /\ UNCHANGED <<wrapped, researchRuns, researchReturn, conversationHistory,
                   researchStore, scriptReturn, runs, storeVars, execVars, taskVars>>

\* mediaGenerator.js 530-553, 587-593 and 682-689, index.js 390-400: the request to
\* the text model fails; generateScriptContent and generateScript rethrow and the
\* handler's catch answers
ScriptCallFails(e) ==
    /\ pipePc = "generateScript"
    /\ parsePc = "awaitScript"
    /\ parsePc' = "idle"
    /\ modelText' = <<>>
    /\ pipePc' = "responded"
    /\ httpResponse' = ErrorResponse(500, e)
    /\ UNCHANGED <<handler, request, research, script, mediaPrompts, attempts, assets,
                   savedAssets, saveLog, calls, runs, storeVars, wrapped, brandInfo,
                   researchRuns, researchReturn, conversationHistory, researchStore,
                   scriptReturn, execVars, taskVars>>

\* the session's handlers: research, then script with its assets
NextSession ==
    \/ \E t \in ResearchTexts \cup ScriptTexts : TextModelPrepares(t)
    \/ \E b \in BrandInfos : ResearchArrives(b)
    \/ ResearchResponds
    \/ \E e \in ResearchCallErrors : ResearchCallFails(e)
    \/ ResearchReplied
    \/ \E r \in ScriptRequests : PostScript(r)
    \/ ScriptResponds
    \/ \E e \in ScriptCallErrors : ScriptCallFails(e)
    \/ \E elems \in ElementLists : GenerateScriptSettles(elems)
    \/ \E settled \in GenSettlements("image") : ImageSettles(settled)
    \/ \E settled \in GenSettlements("animation") : AnimationSettles(settled)
    \/ HandOn
    \/ \E outcome \in FolderOutcomes : FolderSettles(outcome)
    \/ \E outcome \in SaveOutcomes : AssetSaveSettles(outcome)
    \/ Respond

\* the handlers that generate assets from prompts handed in
NextMedia ==
    \/ \E h \in Handlers, r \in MediaRequests : PostMedia(h, r)
    \/ \E r \in MediaRouterRequests : PostMediaRouter(r)
    \/ \E settled \in GenSettlements("image") : ImageSettles(settled)
    \/ \E settled \in GenSettlements("animation") : AnimationSettles(settled)
    \/ HandOn
    \/ \E outcome \in FolderOutcomes : FolderSettles(outcome)
    \/ \E outcome \in SaveOutcomes : AssetSaveSettles(outcome)
    \/ Respond

\* every text the text model may answer with, the executor and the handlers at rest
(***************************************************************************)
(* Requests in flight at the same time.  Node runs one handler until it    *)
(* awaits; the steps below are the stretches between two awaits.  The      *)
(* generations and the saving of the assets, followed call by call above,  *)
(* are one step each here.                                                 *)
(***************************************************************************)

MaxTasks == 2
MaxArrivals == 3
Tasks == 1..MaxTasks

TaskBrands == BrandInfos \cup {StructuredBrand("Globex")}
TaskSessionIds == {"Acme", "Globex"}
\* the text model's answers to a research prompt: none, or a research document
TaskResearchTexts == {<<>>, Serialize(Document("research", <<>>))}
\* the script the text model's answer is parsed to
TaskScript == ScriptOf(Document("script", <<>>), <<HeroShot>>)

NoFolder == [id |-> Undef]
IdleTask ==
    [pc |-> "idle", id |-> 0, brandInfo |-> NoBrand, result |-> JsonNull,
     sessionId |-> Undef, research |-> NoResearch, reads |-> 0, folder |-> NoFolder]

InitTasks ==
    /\ tasks = [i \in Tasks |-> IdleTask]
    /\ arrived = 0
    /\ writeLog = <<>>
    /\ scriptLog = <<>>
    /\ folderLog = <<>>

\* what belongs to the one request followed above
TaskFrame ==
    UNCHANGED <<pc, genKind, modelId, input, nRequest, nSubscribe, subscribeArgs,
                immediate, response, queueResponse, pollMode, requestAt, elapsed,
                checks, sleeps, lastCheckAt, minGap, lastBody, pollOutcome, pollLog,
                execResult, genResult, queueUpdates, parsePc, modelText, wrapped,
                brandInfo, researchRuns, researchReturn, scriptReturn, pipePc, handler,
                request, research, script, mediaPrompts, attempts, assets, savedAssets,
                saveLog, calls, httpResponse, runs>>

\* a request arrives and gets a handler of its own, the first that is free
Arrive(i) ==
    /\ tasks[i].pc = "idle"
    /\ \A j \in Tasks : j < i => tasks[j].pc # "idle"
    /\ arrived < MaxArrivals
    /\ arrived' = arrived + 1

\* the handler of task i has answered: its locals are gone
Answered(i) == tasks' = [tasks EXCEPT ![i] = IdleTask]

StoreSet_Merge(store, key, entry) ==
    IF key \in DOMAIN store
    THEN (key :> [store[key] EXCEPT !.research = entry.research]) @@ store
    ELSE (key :> entry) @@ store

\* Map.prototype.set with a new object (index.js 166-170)
StoreSet(store, key, entry) == (key :> entry) @@ store

\* index.js 142-163, mediaGenerator.js 398-443: the research prompt is posted
TaskPostResearch(i, b) ==
    /\ Arrive(i)
    /\ tasks' = [tasks EXCEPT ![i] = [IdleTask EXCEPT !.pc = "awaitResearch",
                                                      !.id = arrived', !.brandInfo = b]]
    /\ UNCHANGED <<writeLog, scriptLog, folderLog, conversationHistory, researchStore,
                   storeVars>>
    /\ TaskFrame

\* mediaGenerator.js 445-516: the text model answers; the answer is parsed, filed
\* under brandInfo and returned
TaskResearchReturns(i, t) ==
    /\ tasks[i].pc = "awaitResearch"
    /\ tasks' = [tasks EXCEPT ![i].pc = "researchReturned", ![i].result = ParseResearch(t)]
    /\ conversationHistory' =
          (MapKey(tasks[i].brandInfo, tasks[i].id) :> tasks'[i].result)
              @@ conversationHistory
    /\ UNCHANGED <<arrived, writeLog, scriptLog, folderLog, researchStore, storeVars>>
    /\ TaskFrame

\* mediaGenerator.js 436-443, 517-520 and index.js 185-192: the call fails
TaskResearchFails(i) ==
    /\ tasks[i].pc = "awaitResearch"
    /\ Answered(i)
    /\ UNCHANGED <<arrived, writeLog, scriptLog, folderLog, conversationHistory,
                   researchStore, storeVars>>
    /\ TaskFrame

TaskStoresResearch_InPlace(i) ==
    /\ tasks[i].pc = "researchReturned"
    /\ LET key == ResearchKey(tasks[i].brandInfo)
           entry == [research |-> tasks[i].result, brandInfo |-> tasks[i].brandInfo]
       IN /\ researchStore' = StoreSet(researchStore, key, entry)
          /\ writeLog' = Append(writeLog, [id |-> tasks[i].id, key |-> key,
                                           research |-> tasks[i].result,
                                           brandInfo |-> tasks[i].brandInfo])
          /\ tasks' = [j \in Tasks |->
                          IF j = i THEN IdleTask
                          ELSE IF tasks[j].sessionId = key
                            THEN [tasks[j] EXCEPT !.research = entry]
                            ELSE tasks[j]]
    /\ UNCHANGED <<arrived, scriptLog, folderLog, conversationHistory, storeVars>>
    /\ TaskFrame

\* index.js 163-184: generateBrandResearch has returned; the handler stores a new
\* entry under researchKey and answers.  The entries other handlers hold are
\* other objects and stay as they are.
TaskStoresResearch(i) ==
    /\ tasks[i].pc = "researchReturned"
    /\ LET key == ResearchKey(tasks[i].brandInfo)
           entry == [research |-> tasks[i].result, brandInfo |-> tasks[i].brandInfo]
       IN /\ researchStore' = StoreSet(researchStore, key, entry)
          /\ writeLog' = Append(writeLog, [id |-> tasks[i].id, key |-> key,
                                           research |-> tasks[i].result,
                                           brandInfo |-> tasks[i].brandInfo])
    /\ Answered(i)
    /\ UNCHANGED <<arrived, scriptLog, folderLog, conversationHistory, storeVars>>
    /\ TaskFrame

\* index.js 196-246 and mediaGenerator.js 635-673: the request names its session;
\* the session's research is read, generateScript validates it and posts the
\* script prompt, built from it, to the text model
TaskPostScript(i, sid) ==
    /\ Arrive(i)
    /\ IF sid \notin DOMAIN researchStore
         THEN UNCHANGED tasks
         ELSE LET held == researchStore[sid] IN
              IF ~Truthy(held.brandInfo.name) \/ held.research.type = "null"
              THEN UNCHANGED tasks
              ELSE tasks' = [tasks EXCEPT ![i] =
                                [IdleTask EXCEPT !.pc = "awaitScript", !.id = arrived',
                                                 !.sessionId = sid, !.research = held,
                                                 !.reads = 1]]
    /\ UNCHANGED <<writeLog, scriptLog, folderLog, conversationHistory, researchStore,
                   storeVars>>
    /\ TaskFrame

\* mediaGenerator.js 551-593 and 682-689, index.js 390-400: the call or the parse fails
TaskScriptFails(i) ==
    /\ tasks[i].pc = "awaitScript"
    /\ Answered(i)
    /\ UNCHANGED <<arrived, writeLog, scriptLog, folderLog, conversationHistory,
                   researchStore, storeVars>>
    /\ TaskFrame

\* mediaGenerator.js 675-691, index.js 248-292, mediaPromptGenerator.mcp.js 134-251:
\* the script is stored, the media prompts are derived and stored, and the first
\* generation is requested
TaskScriptReturns(i) ==
    /\ tasks[i].pc = "awaitScript"
    /\ tasks' = [tasks EXCEPT ![i].pc = "generating"]
    /\ scriptHistory' =
          (ScriptStorageKey(tasks[i].research.brandInfo.name) :> TaskScript)
              @@ scriptHistory
    /\ mediaPromptHistory' =
          (MediaPromptsStorageKey(tasks[i].sessionId) :>
              [mediaElements |-> VisualPrompts(TaskScript), derivedFrom |-> TaskScript])
              @@ mediaPromptHistory
    /\ scriptLog' = Append(scriptLog, [id |-> tasks[i].id, sessionId |-> tasks[i].sessionId,
                                       derivedFrom |-> tasks[i].research,
                                       stored |-> researchStore[tasks[i].sessionId]])
    /\ UNCHANGED <<arrived, writeLog, folderLog, conversationHistory, researchStore,
                   sessionFolders, driveFolders, latestScriptData>>
    /\ TaskFrame

\* the sessionKey of the run's folder (index.js 353, storageService.js 59)
TaskFolderKey(i) == SessionKey(tasks[i].research.brandInfo.name, tasks[i].sessionId)

\* index.js 288-353, storageService.js 242-252 and 56-79: the generations are over;
\* saveAssetsToDrive looks the session's folder up and, finding none, asks Drive
\* for a folder of the name
TaskGenerationsSettle(i) ==
    /\ tasks[i].pc = "generating"
    /\ tasks' = IF TaskFolderKey(i) \in DOMAIN sessionFolders
                THEN [tasks EXCEPT ![i].pc = "saving",
                                   ![i].folder = sessionFolders[TaskFolderKey(i)]]
                ELSE [tasks EXCEPT ![i].pc = "listFolder"]
    /\ UNCHANGED <<arrived, writeLog, scriptLog, folderLog, conversationHistory,
                   researchStore, storeVars>>
    /\ TaskFrame

\* storageService.js 76-85 and 129-136: the folder name carries the time of the
\* call, so that no folder of the name is found; or the query fails
TaskListSettles(i, ok) ==
    /\ tasks[i].pc = "listFolder"
    /\ IF ok THEN tasks' = [tasks EXCEPT ![i].pc = "createFolder"] ELSE Answered(i)
    /\ UNCHANGED <<arrived, writeLog, scriptLog, folderLog, conversationHistory,
                   researchStore, storeVars>>
    /\ TaskFrame

\* storageService.js 86-101: the folder is created, or the call fails
TaskCreateSettles(i, ok) ==
    /\ tasks[i].pc = "createFolder"
    /\ IF ok
         THEN /\ driveFolders' = driveFolders + 1
              /\ tasks' = [tasks EXCEPT ![i].pc = "shareFolder",
                                        ![i].folder = [id |-> FolderId(driveFolders')]]
              /\ folderLog' = Append(folderLog, [key |-> TaskFolderKey(i),
                                                 id |-> FolderId(driveFolders')])
         ELSE /\ Answered(i)
              /\ UNCHANGED <<driveFolders, folderLog>>
    /\ UNCHANGED <<arrived, writeLog, scriptLog, conversationHistory, researchStore,
                   sessionFolders, scriptHistory, mediaPromptHistory, latestScriptData>>
    /\ TaskFrame

\* storageService.js 103-118: the folder is made public and recorded for the
\* session, or the call fails
TaskShareSettles(i, ok) ==
    /\ tasks[i].pc = "shareFolder"
    /\ IF ok
         THEN /\ sessionFolders' = (TaskFolderKey(i) :> tasks[i].folder) @@ sessionFolders
              /\ tasks' = [tasks EXCEPT ![i].pc = "saving"]
         ELSE /\ Answered(i)
              /\ UNCHANGED sessionFolders
    /\ UNCHANGED <<arrived, writeLog, scriptLog, folderLog, conversationHistory,
                   researchStore, driveFolders, scriptHistory, mediaPromptHistory,
                   latestScriptData>>
    /\ TaskFrame

\* storageService.js 261-345 and index.js 354-389: the assets are saved and the
\* handler answers
TaskResponds(i) ==
    /\ tasks[i].pc = "saving"
    /\ latestScriptData' = TaskScript
    /\ Answered(i)
    /\ UNCHANGED <<arrived, writeLog, scriptLog, folderLog, conversationHistory,
                   researchStore, sessionFolders, driveFolders, scriptHistory,
                   mediaPromptHistory>>
    /\ TaskFrame

NextTasks ==
    \E i \in Tasks :
        \/ \E b \in TaskBrands : TaskPostResearch(i, b)
        \/ \E t \in TaskResearchTexts : TaskResearchReturns(i, t)
        \/ TaskResearchFails(i)
        \/ TaskStoresResearch(i)
        \/ \E sid \in TaskSessionIds : TaskPostScript(i, sid)
        \/ TaskScriptFails(i)
        \/ TaskScriptReturns(i)
        \/ TaskGenerationsSettle(i)
        \/ \E ok \in BOOLEAN : TaskListSettles(i, ok)
        \/ \E ok \in BOOLEAN : TaskCreateSettles(i, ok)
        \/ \E ok \in BOOLEAN : TaskShareSettles(i, ok)
        \/ TaskResponds(i)

Init == InitExec /\ InitParse /\ InitPipe /\ InitTasks

\* no text-model call is followed, the executor and the handlers at rest
InitMedia == InitExec /\ InitNoText /\ InitPipe /\ InitTasks

Next == NextQueue \/ NextParse \/ NextSession \/ NextMedia \/ NextTasks

Spec == Init /\ [][Next]_vars

\* the executor and poller alone
SpecExec == InitMedia /\ [][NextExec]_vars

\* the executor and poller, the queue's progress updates included
SpecQueue == InitMedia /\ [][NextQueue]_vars

\* the parsing of the text model's answers alone
SpecParse == Init /\ [][NextParse]_vars

\* the research and script handlers, each generation call taken as one step
SpecSession == InitMedia /\ [][NextSession]_vars

\* the media handlers, each generation call taken as one step
SpecMedia == InitMedia /\ [][NextMedia]_vars

\* research and script requests in flight at the same time
SpecTasks == InitMedia /\ [][NextTasks]_vars

(***************************************************************************)
(* Properties of executeModelRequest and pollStatus                        *)
(***************************************************************************)

PollPcs == {"pollHead", "pollGet", "pollSleep", "pollSettled"}
ImmediateFailed == immediate \in RequestErrors
\* the finished pollStatus calls made for the queued handle
QueuedPolls == {i \in 1..Len(pollLog) : pollLog[i].mode = "queued"}
QueuedPollOutput == pollLog[Len(pollLog)].output

\* C1: when fal.request fails (404 or any other error) the job is submitted once
\* through fal.subscribe with the same modelId and input, a status handle in the
\* queued response is polled, and what executeModelRequest returns is the queued
\* path's result.
C1_FallbackToQueue ==
    ImmediateFailed =>
        /\ nSubscribe = 1
        /\ subscribeArgs = <<modelId, input>>
        /\ pc # "subscribe" /\ HasHandle(queueResponse) =>
              \/ pc \in PollPcs /\ pollMode = "queued"
              \/ pc = "done" /\ QueuedPolls # {}
        /\ pc # "subscribe" /\ ~HasHandle(queueResponse) => pc = "done" /\ pollLog = <<>>
        /\ execResult.status = "returned" =>
              IF HasHandle(queueResponse)
              THEN /\ pollLog[Len(pollLog)].outcome = "returned"
                   /\ execResult.value.data = QueuedPollOutput
                   /\ execResult.value.requestId = queueResponse.request_id
              ELSE execResult.value = queueResponse

C1_Witness ==
    /\ immediate = "Not Found"
    /\ genKind = "video"
    /\ HasHandle(queueResponse)
    /\ execResult.status = "returned"
    /\ execResult.value.data = VideoPayload

\* C2: when fal.request resolved with direct output or with a status handle,
\* fal.subscribe is never called, however the polling ends.
C2_NoQueueAfterImmediateSuccess ==
    immediate = "resolved" /\ ~response.nullish => nSubscribe = 0

\* the output the provider delivered on the path the call took
DeliveredOutput ==
    IF pollLog # <<>> /\ pollLog[Len(pollLog)].outcome = "returned"
    THEN pollLog[Len(pollLog)].output
    ELSE IF nSubscribe = 0
         THEN (IF "output" \in response.keys THEN response.output ELSE response.data)
         ELSE (IF "output" \in queueResponse.keys THEN queueResponse.output
               ELSE queueResponse.data)

\* C3: every value executeModelRequest returns has the shape {data, requestId},
\* data being the provider's output, on each of the four paths.
C3_NormalizedShape ==
    execResult.status = "returned" =>
        /\ execResult.value.keys = {"data", "requestId"}
        /\ execResult.value.data = DeliveredOutput

\* C4: when the third status check is the first to report COMPLETED, pollStatus
\* settles there: it returns that response's output after exactly 3 checks and 2
\* sleeps, and consecutive checks started at least interval apart.
C4_CompletedOnThirdCheck ==
    lastBody.status = "COMPLETED" /\ checks = 3 =>
        /\ pc = "pollSettled"
        /\ sleeps = 2
        /\ pollOutcome.status = "returned"
        /\ pollOutcome.output = lastBody.output
        /\ minGap >= DefaultInterval

C4_Witness ==
    /\ pc = "pollSettled"
    /\ checks = 3
    /\ lastBody = StatusBody("COMPLETED", ImagePayload, Undef)
    /\ pollOutcome.status = "returned"

\* C5: the timeout error is raised only when elapsed time >= timeout and only
\* after non-terminal reports; no status check is started once elapsed time >=
\* timeout (the only step left is raising the error); and a source that never
\* reports a terminal status is checked a bounded number of times.
C5_TimeoutNotBefore ==
    /\ pollOutcome.error = TimeoutMessage =>
          /\ pollOutcome.status = "threw"
          /\ elapsed >= DefaultTimeout
          /\ lastBody.status \notin {"COMPLETED", "FAILED"}
    /\ pc = "pollGet" => lastCheckAt < DefaultTimeout
    /\ pc = "pollHead" /\ elapsed >= DefaultTimeout =>
          ENABLED PollTimesOut /\ ~ENABLED PollCheck
    /\ pc = "pollHead" /\ elapsed < DefaultTimeout => ~ENABLED PollTimesOut
    /\ checks >= 1 => (checks - 1) * DefaultInterval < DefaultTimeout

C5_Witness ==
    /\ pc = "pollSettled"
    /\ pollOutcome.error = TimeoutMessage
    /\ lastBody.status = "IN_PROGRESS"
    /\ elapsed = DefaultTimeout

\* C6: a FAILED report ends pollStatus at once: no check or sleep follows, no
\* value is returned, and the error thrown carries the provider's error, or
\* 'Unknown error' when the provider gave none.
C6_FailedStopsPolling ==
    lastBody.status = "FAILED" =>
        /\ pc = "pollSettled"
        /\ sleeps = checks - 1
        /\ pollOutcome.status = "threw"
        /\ pollOutcome.output = NoPayload
        /\ pollOutcome.error =
              (IF lastBody.error \in {Undef, ""} THEN "Request failed: Unknown error"
               ELSE "Request failed: " \o lastBody.error)

C6_Witness ==
    /\ pc = "pollSettled"
    /\ lastBody = StatusBody("FAILED", NoPayload, "quota exceeded")
    /\ checks = 2
    /\ pollOutcome.error = "Request failed: quota exceeded"

\* the queued submission ended without an output payload
QueuedResultWithoutPayload ==
    /\ pc = "done"
    /\ nSubscribe = 1
    /\ \/ queueResponse.nullish
       \/ /\ execResult.status = "returned"
          /\ ~HasHandle(queueResponse)
          /\ ~queueResponse.data.present /\ ~queueResponse.output.present
       \/ /\ execResult.status = "returned"
          /\ HasHandle(queueResponse)
          /\ ~QueuedPollOutput.present

\* C7: when the queued submission's result carries no output payload, the
\* generator rejects with an error, and the job was submitted once immediately
\* and once to the queue, never again.
C7_NoPayloadIsHardFailure ==
    QueuedResultWithoutPayload =>
        /\ genResult.status = "rejected"
        /\ genResult.error # Undef
        /\ nRequest = 1
        /\ nSubscribe = 1

C7_Witness ==
    /\ QueuedResultWithoutPayload
    /\ HasHandle(queueResponse)
    /\ genKind = "image"
    /\ genResult.error = "Failed to generate image: No data received from Fal.ai"

(***************************************************************************)
(* Properties of the response parsing                                      *)
(***************************************************************************)

\* the text holds no JSON document, neither in a fenced block (or as a whole)
\* nor once its fence markers are removed
NotParseable(text) ==
    /\ ~JsonParse(FirstJsonStr(text)).ok
    /\ ~JsonParse(CleanResearchText(text)).ok

\* C8: for a response that is not parseable as JSON, the research parse returns
\* an object with all five sections and with rawResponse equal to the response
\* text, token for token.
C8_PlaceholderKeepsRawText ==
    parsePc = "research" /\ NotParseable(modelText) =>
        /\ researchReturn.type = "object"
        /\ FiveSections \subseteq researchReturn.keys
        /\ "rawResponse" \in researchReturn.keys
        /\ researchReturn.rawResponse = modelText

C8_Witness ==
    /\ parsePc = "research"
    /\ modelText = <<PROSE, NL, FENCE, TAG, NL, Open("research"), PROSE, NL, FENCE>>
    /\ researchReturn.rawResponse = modelText
    /\ FiveSections \subseteq researchReturn.keys

\* the response holds a document of the schema kind inside a fenced code block
FencedDocument(shape) ==
    /\ wrapped.isDoc
    /\ wrapped.doc.shape = shape
    /\ wrapped.opener \in StandardOpeners
    /\ wrapped.closer = StandardCloser

\* C9: a research (script) document serialized inside a fenced block is what the
\* research (script) parse returns, unaltered, and the script parse raises no
\* error.
C9_FencedRoundTrip ==
    /\ parsePc = "research" /\ FencedDocument("research") => researchReturn = wrapped.doc
    /\ parsePc = "script" /\ FencedDocument("script") =>
          scriptReturn.status = "returned" /\ scriptReturn.value = wrapped.doc

\* C10: whatever the text model answered, the research stored for a session and
\* returned is an object with all five sections.
C10_StoredResearchHasSections ==
    /\ \A k \in DOMAIN researchStore :
          /\ researchStore[k].research.type = "object"
          /\ FiveSections \subseteq researchStore[k].research.keys
    /\ parsePc = "research" =>
          researchReturn.type = "object" /\ FiveSections \subseteq researchReturn.keys

(***************************************************************************)
(* Properties of the session pipeline                                      *)
(***************************************************************************)

\* what is left of the script response after fence and control-character
\* stripping is no JSON document, or one without an array-typed sections
ScriptUnusable(text) ==
    LET p == JsonParse(CleanScriptContent(text)) IN
    ~p.ok \/ p.value.sections # "array"

\* every store a session's requests write to
SessionStores ==
    <<researchStore, conversationHistory, scriptHistory, mediaPromptHistory,
      latestScriptData, sessionFolders, driveFolders>>

\* C11: when generateScriptContent settled on an unusable script response, the
\* next step of the script handler answers with a failure that carries the parse
\* error, returns no script, stores no script and no media prompts, and makes no
\* media-prompt, generation or storage call: the run is over.
C11_ScriptParseErrorSurfaced ==
    [][pipePc = "generateScript" /\ parsePc = "script" /\ ScriptUnusable(modelText) =>
          /\ pipePc' = "responded"
          /\ ~httpResponse'.ok /\ httpResponse'.status = 500
          /\ httpResponse'.error \in
                {"Failed to parse script content: Unexpected token",
                 "Failed to parse script content: Cannot read properties of null (reading 'sections')",
                 "Failed to parse script content: Invalid script structure in response",
                 "Invalid response format from API"}
          /\ script' = NoScriptData /\ mediaPrompts' = NoPrompts
          /\ calls' = [NoCalls EXCEPT !.text = 1]
          /\ attempts' = <<>> /\ assets' = <<>>
          /\ UNCHANGED SessionStores]_vars

C11_Witness ==
    /\ pipePc = "responded"
    /\ handler = ScriptHandler
    /\ httpResponse.error =
          "Failed to parse script content: Invalid script structure in response"
    /\ scriptHistory = <<>> /\ mediaPromptHistory = <<>>
    /\ calls = [NoCalls EXCEPT !.text = 1]

\* the script request r cannot be served: a required field is missing, the
\* session key owns no research, or the research entry lacks the brand name or
\* the research itself
Unservable(r) ==
    \/ r.sessionId = Undef \/ r.campaignGoals = Undef \/ r.targetAudience = Undef
    \/ r.sessionId \notin DOMAIN researchStore
    \/ researchStore[r.sessionId].brandInfo.kind # "object"
    \/ researchStore[r.sessionId].research.type = "null"

ResearchEntries(b) == {k \in DOMAIN conversationHistory : k.value = b}

\* C13: the session key is a function of the brand, and after any number of
\* research runs the session state holds one research entry per brand: one
\* under its key in researchStore, one in conversationHistory.
C13_OneResearchEntryPerBrand ==
    /\ \A k \in DOMAIN researchStore : k = ResearchKey(researchStore[k].brandInfo)
    /\ \A b \in BrandInfos : Cardinality(ResearchEntries(b)) <= 1

\* C14: in any asset-generation run image generation is invoked at most twice and
\* animation generation at most once, whatever the number of prompts supplied.
C14_GenerationCapped ==
    /\ calls.image <= ImageCap
    /\ calls.video <= AnimationCap

\* C15: the metadata of a successful asset-generation response reports the
\* number of prompts requested and the number of assets generated.
C15_MetadataReportsBothCounts ==
    pipePc = "responded" /\ httpResponse.ok =>
        {"totalRequested", "totalGenerated"} \subseteq httpResponse.metadata.keys

\* the attempts of a batch that succeeded, in order
Succeeded(att) == SelectSeq(att, LAMBDA a : a.ok)
\* the batch the handler was given has been gone through
BatchOver == pipePc \in {"assetsReady", "folder", "saving", "saved", "responded"}

\* C16: once a batch is over, every prompt within the cap was attempted whatever
\* the other attempts came to, and the assets handed on to storage are the
\* succeeded attempts, one asset each and in order; a success response returns
\* them: those storage kept where the handler persists them, all of them where
\* it does not.
C16_FailureIsolatedPerPrompt ==
    BatchOver =>
        /\ Tried(attempts, "image") = Len(ImageTargets(handler, mediaPrompts))
        /\ Tried(attempts, "animation") = Len(AnimationTargets(handler, mediaPrompts))
        /\ Len(assets) = Len(Succeeded(attempts))
        /\ \A i \in DOMAIN assets : assets[i].type = Succeeded(attempts)[i].type
        /\ pipePc = "responded" /\ httpResponse.ok =>
              IF Persists(handler)
              THEN /\ Len(saveLog) = Len(assets)
                   /\ Len(httpResponse.assets) = Len(SelectSeq(saveLog, LAMBDA kept : kept))
              ELSE httpResponse.assets = assets

C16_Witness ==
    /\ pipePc = "responded"
    /\ handler = ScriptHandler
    /\ httpResponse.ok
    /\ Len(attempts) = ImageCap + AnimationCap
    /\ ~attempts[1].ok /\ attempts[2].ok /\ ~attempts[3].ok
    /\ Len(httpResponse.assets) = 1

\* C17: when every generation attempt of a batch failed, the caller receives a
\* failure response, never a success response with an empty asset list.
C17_AllFailedIsFailure ==
    pipePc = "responded" /\ attempts # <<>> /\ Succeeded(attempts) = <<>> =>
        ~httpResponse.ok

\* C18: a run that reached storage is answered with success whatever storage
\* came to, the folder's creation or lookup included; every asset was tried, and
\* the response returns the ones whose persistence succeeded.
C18_StorageFailureNeverFailsRun ==
    pipePc = "responded" /\ calls.storage > 0 =>
        /\ httpResponse.ok
        /\ Len(saveLog) = Len(assets)
        /\ Len(httpResponse.assets) = Len(SelectSeq(saveLog, LAMBDA kept : kept))

\* the session keys requests are made for
SessionIds == {r.sessionId : r \in ScriptRequests} \ {Undef}

C20_QueueUpdatesOnlyLog ==
    [][queueUpdates' # queueUpdates =>
          UNCHANGED <<pc, execResult, genResult, nRequest, nSubscribe, subscribeArgs,
                      queueResponse, pollVars, pollLog>>]_vars

(***************************************************************************)
(* Further properties of the generators, the executor and the poller       *)
(***************************************************************************)

\* the urls generateImage / generateVideo may take from a payload
ExtractableUrls(kind, payload) ==
    (IF kind = "image" THEN {payload.imageUrl}
     ELSE {payload.videoUrl, payload.videoNestedUrl}) \ {Undef, ""}

\* the executor's result carries a payload in data, with a url for this generator
HasExtractableUrl ==
    /\ execResult.status = "returned"
    /\ ~execResult.value.nullish
    /\ execResult.value.data.present
    /\ ExtractableUrls(genKind, execResult.value.data) # {}

C25_PollOutcomes ==
    [][/\ pc = "pollGet" =>
             /\ lastBody'.status = "error" =>
                   /\ pc' = "pollSettled"
                   /\ pollOutcome'.status = "threw"
                   /\ pollOutcome'.error \in StatusGetErrors
             /\ pollOutcome'.status = "returned" =>
                   /\ lastBody'.status = "COMPLETED"
                   /\ pollOutcome'.output = lastBody'.output
             /\ lastBody'.status \notin {"COMPLETED", "FAILED", "error"} =>
                   /\ pc' = "pollSleep"
                   /\ pollOutcome' = NoOutcome
       /\ pc = "pollSettled" => pc' \in {"done", "subscribe"} /\ checks' = 0]_vars

C25_Witness ==
    /\ pc = "pollSettled"
    /\ lastBody.status = "error"
    /\ pollOutcome.error = "Network Error"
    /\ checks = 2
    /\ elapsed < DefaultTimeout

\* the polling sessions started so far
PollSessions == Len(pollLog) + (IF pollMode = "none" THEN 0 ELSE 1)
\* the call is on its queued path: fal.subscribe is pending or its handle is polled
OnQueuedPath == pc = "subscribe" \/ (pc \in PollPcs /\ pollMode = "queued")

\* C24: one call makes at most one immediate submission, one queued submission
\* and two polling sessions, each of a bounded number of status checks; on the
\* queued path nothing is submitted any more, the path is left only by the
\* call's end, and a failed poll of the queued handle ends the call with the
\* poll's error.
C24_BoundedInteractions ==
    /\ [](/\ nRequest <= 1
          /\ nSubscribe <= 1
          /\ PollSessions <= 2
          /\ checks <= DefaultTimeout \div DefaultInterval)
    /\ [][OnQueuedPath =>
             /\ nRequest' = nRequest /\ nSubscribe' = nSubscribe
             /\ pc' = "done" \/ OnQueuedPath'
             /\ pc = "pollSettled" /\ pollOutcome.status = "threw" =>
                   pc' = "done" /\ execResult' = Threw(pollOutcome.error)]_vars

C24_Witness ==
    /\ pc = "done"
    /\ nRequest = 1 /\ nSubscribe = 1
    /\ Len(pollLog) = 2
    /\ pollLog[1].mode = "immediate" /\ pollLog[2].mode = "queued"
    /\ pollLog[2].outcome = "threw"
    /\ execResult = Threw(TimeoutMessage)

(***************************************************************************)
(* Further properties of the session pipeline                              *)
(***************************************************************************)

Servable(r) ==
    /\ r.sessionId # Undef /\ r.campaignGoals # Undef /\ r.targetAudience # Undef
    /\ r.sessionId \in DOMAIN researchStore
    /\ researchStore[r.sessionId].research.type # "null"

\* C23: a complete script request for a session that owns a research result,
\* whether its brand information is structured or free text, passes validation
\* and reaches the text-model call.
C23_SessionWithResearchReachesTextModel ==
    [][handler' = ScriptHandler /\ runs' = runs + 1 /\ Servable(request') =>
          /\ pipePc' = "generateScript"
          /\ parsePc' = "awaitScript"
          /\ calls'.text = 1]_vars

\* the generations the run has to attempt
Targets == Len(ImageTargets(handler, mediaPrompts)) + Len(AnimationTargets(handler, mediaPrompts))

Generating == pipePc \in {"image", "animation"}

\* C29: within one run of the script handler the stages are strictly ordered:
\* media prompts exist only once the script is stored and are derived from it;
\* at most one generation is in flight, and no image is attempted after an
\* animation; no storage call is made before every generation was attempted;
\* the successful response is sent only from the state in which
\* saveAssetsToDrive has returned, every asset's save having settled.
C29_StagesStrictlyOrdered ==
    /\ [](handler = ScriptHandler =>
            /\ mediaPrompts # NoPrompts =>
                  /\ ScriptStorageKey(research.brandInfo.name) \in DOMAIN scriptHistory
                  /\ scriptHistory[ScriptStorageKey(research.brandInfo.name)] = script
                  /\ mediaPrompts = VisualPrompts(script)
            /\ pipePc = "generateScript" =>
                  mediaPrompts = NoPrompts /\ calls.image + calls.video + calls.storage = 0
            /\ calls.image + calls.video = Len(attempts) + (IF Generating THEN 1 ELSE 0)
            /\ \A i, j \in DOMAIN attempts :
                  i < j /\ attempts[i].type = "animation" => attempts[j].type = "animation"
            /\ pipePc = "animation" =>
                  Tried(attempts, "image") = Len(ImageTargets(handler, mediaPrompts))
            /\ calls.storage > 0 \/ pipePc \in {"folder", "saving", "saved"} =>
                  ~Generating /\ Len(attempts) = Targets
            /\ httpResponse.ok =>
                  /\ pipePc = "responded"
                  /\ Len(attempts) = Targets
                  /\ Len(saveLog) = Len(assets))
    /\ [][handler' = ScriptHandler /\ httpResponse'.ok /\ ~httpResponse.ok =>
             pipePc = "saved" /\ pipePc' = "responded"]_vars

C29_Witness ==
    /\ handler = ScriptHandler
    /\ pipePc = "responded"
    /\ httpResponse.ok
    /\ Len(attempts) = 3
    /\ attempts[1].type = "image" /\ ~attempts[1].ok
    /\ attempts[2].type = "image" /\ attempts[2].ok
    /\ attempts[3].type = "animation" /\ attempts[3].ok
    /\ calls = [text |-> 1, image |-> 2, video |-> 1, storage |-> 3]
    /\ Len(saveLog) = 2

\* the prompts of a list
PromptsOf(list) == {list[i] : i \in DOMAIN list}

\* C30: whatever the script (without sections, with sections that hold no
\* visual elements, or with visual elements none of which is a string), the
\* media prompts generateMediaPrompts returns hold at least one image prompt and
\* at least one animation prompt, every one of them a string, and the set stored
\* under the media-prompt key is the set returned.
C30_AlwaysOneImageAndOneAnimation ==
    [][pipePc = "generateScript" /\ mediaPrompts' # mediaPrompts =>
          /\ Len(mediaPrompts'.images) >= 1
          /\ Len(mediaPrompts'.animations) >= 1
          /\ \A e \in PromptsOf(mediaPrompts'.images) : IsString(e) /\ IsStillElement(e)
          /\ \A e \in PromptsOf(mediaPrompts'.animations) : IsString(e)
          /\ ~HasSections(script') =>
                mediaPrompts' = [images |-> <<SectionlessImagePrompt>>,
                                 animations |-> <<SectionlessAnimationPrompt>>]
          /\ MediaPromptsStorageKey(request.sessionId) \in DOMAIN mediaPromptHistory'
          /\ mediaPromptHistory'[MediaPromptsStorageKey(request.sessionId)].mediaElements
                = mediaPrompts']_vars

C30_Witness ==
    /\ handler = ScriptHandler
    /\ HasSections(script)
    /\ script.visualElements = <<NotAString>>
    /\ mediaPrompts = [images |-> <<DefaultImagePrompt>>,
                       animations |-> <<DefaultAnimationPrompt>>]
    /\ mediaPromptHistory[MediaPromptsStorageKey("Acme")].mediaElements = mediaPrompts

(***************************************************************************)
(* Properties of requests in flight at the same time                       *)
(***************************************************************************)

\* the researchStore.set calls made for key k, in order
WritesTo(k) == SelectSeq(writeLog, LAMBDA w : w.key = k)

Last(seq) == seq[Len(seq)]

\* C21: however research runs interleave, researchStore holds for every key
\* exactly the entry of the last researchStore.set made for that key, the
\* research and the brandInfo of that one run and never the research of one run
\* beside the brandInfo of another; a researchStore.set for one key leaves the
\* entries of all other keys as they were.
C21_LastWriterWinsWhole ==
    /\ [](\A k \in DOMAIN researchStore :
            /\ WritesTo(k) # <<>>
            /\ researchStore[k] = [research |-> Last(WritesTo(k)).research,
                                   brandInfo |-> Last(WritesTo(k)).brandInfo])
    /\ [][\A k \in DOMAIN researchStore :
             writeLog' = writeLog \/ Last(writeLog').key # k =>
                 k \in DOMAIN researchStore' /\ researchStore'[k] = researchStore[k]]_vars

\* the run that arrived first wrote last, over the entry of the run that arrived
\* second, while a run for another key was in flight
C21_Witness ==
    /\ Len(writeLog) = 2
    /\ writeLog[1].key = "Acme" /\ writeLog[2].key = "Acme"
    /\ writeLog[1].id = 2 /\ writeLog[2].id = 1
    /\ writeLog[1].brandInfo # writeLog[2].brandInfo
    /\ writeLog[1].research # writeLog[2].research
    /\ researchStore["Acme"].brandInfo = writeLog[2].brandInfo
    /\ researchStore["Acme"].research = writeLog[2].research
    /\ \E i \in Tasks : tasks[i].pc = "researchReturned"
                        /\ ResearchKey(tasks[i].brandInfo) = "Globex"

ScriptPcs == {"awaitScript", "generating", "listFolder", "createFolder", "shareFolder",
              "saving"}

\* C26: a script run reads researchStore once, in the step in which it arrives,
\* and holds what it read until it answers, whatever is written to researchStore
\* meanwhile; the script it stores is derived from the entry read on arrival.
C26_ScriptUsesResearchReadAtStart ==
    [][\A i \in Tasks :
          /\ tasks[i].pc = "idle" /\ tasks'[i].pc = "awaitScript" =>
                /\ tasks'[i].research = researchStore[tasks'[i].sessionId]
                /\ tasks'[i].reads = 1
          /\ tasks[i].pc \in ScriptPcs /\ tasks'[i].pc \in ScriptPcs =>
                /\ tasks'[i].research = tasks[i].research
                /\ tasks'[i].reads = tasks[i].reads
          /\ tasks[i].pc = "awaitScript" /\ tasks'[i].pc = "generating" =>
                /\ Len(scriptLog') = Len(scriptLog) + 1
                /\ Last(scriptLog').derivedFrom = tasks[i].research
                /\ scriptHistory'[ScriptStorageKey(tasks[i].research.brandInfo.name)]
                      = TaskScript]_vars

\* a script is stored that was derived from research the store no longer holds
C26_Witness ==
    /\ scriptLog # <<>>
    /\ Last(scriptLog).sessionId = "Acme"
    /\ Last(scriptLog).derivedFrom # Last(scriptLog).stored
    /\ Last(scriptLog).derivedFrom.research # Last(scriptLog).stored.research
    /\ researchStore["Acme"] = Last(scriptLog).stored
    /\ \E i \in Tasks : tasks[i].pc = "generating"
                        /\ tasks[i].research = Last(scriptLog).derivedFrom

\* C27: however the calls of saveAssetsToDrive interleave, at most one Drive
\* folder is created for a sessionKey (brand and sessionId).
C27_OneFolderPerSession ==
    \A n, m \in DOMAIN folderLog : folderLog[n].key = folderLog[m].key => n = m

====
